---- MODULE Spec2Model ----
(***************************************************************************)
(* Generator engine of the TYPO3 content element builder (src/lib/utils.ts)*)
(* Strings are TLA+ strings; a character is a string of length one.        *)
(***************************************************************************)
EXTENDS Integers, Sequences, FiniteSets, TLC

VARIABLES
    spec,        \* the BuilderSpec handed to the engine
    validation,  \* last ValidationResult returned by validateSpec
    files,       \* last mapping returned by buildGeneratedFiles
    paths,       \* last list returned by listGeneratedFilePaths
    bundle,      \* the BuilderSpec[] handed to createZipFromSpecs
    zip,         \* outcome of createZipFromSpecs
    ui           \* the builder page: its status line and the spec files it wrote and read

vars == <<spec, validation, files, paths, bundle, zip, ui>>

\* Total number of field definitions (top-level and repeater children) of a drawn spec.
MaxNodes == 4
\* Number of specs of a drawn bundle.
MaxBundle == 3
\* Number of spec files the builder page writes and reads in one behaviour.
MaxEvents == 3
\* Number of handlers of the builder page run in one behaviour.
MaxSteps == 4

(***************************************************************************)
(* Characters and the String.prototype methods the engine uses             *)
(***************************************************************************)
LowerStr == "abcdefghijklmnopqrstuvwxyz"
UpperStr == "ABCDEFGHIJKLMNOPQRSTUVWXYZ"
DigitStr == "0123456789"

CharsOf(s) == {SubSeq(s, i, i) : i \in 1..Len(s)}
Lower == CharsOf(LowerStr)
Upper == CharsOf(UpperStr)
Digit == CharsOf(DigitStr)
Whitespace == {" ", "\t", "\n", "\r"}
\* [a-z0-9], [a-z0-9_] and [a-zA-Z0-9_]
SlugChars == Lower \cup Digit
KeyChars == Lower \cup Digit \cup {"_"}
IdentifierChars == Lower \cup Upper \cup Digit \cup {"_"}

CharAt(s, i) == SubSeq(s, i, i)

IndexIn(c, s) == CHOOSE i \in 1..Len(s) : CharAt(s, i) = c

toLowerChar(c) == IF c \in Upper THEN CharAt(LowerStr, IndexIn(c, UpperStr)) ELSE c
toUpperChar(c) == IF c \in Lower THEN CharAt(UpperStr, IndexIn(c, LowerStr)) ELSE c

RECURSIVE toLowerCase(_)
toLowerCase(s) ==
    IF s = "" THEN "" ELSE toLowerChar(CharAt(s, 1)) \o toLowerCase(SubSeq(s, 2, Len(s)))

RECURSIVE trimStart(_, _)
trimStart(s, drop) ==
    IF s # "" /\ CharAt(s, 1) \in drop THEN trimStart(SubSeq(s, 2, Len(s)), drop) ELSE s

RECURSIVE trimEnd(_, _)
trimEnd(s, drop) ==
    IF s # "" /\ CharAt(s, Len(s)) \in drop THEN trimEnd(SubSeq(s, 1, Len(s) - 1), drop) ELSE s

\* String.prototype.trim
trim(s) == trimEnd(trimStart(s, Whitespace), Whitespace)

\* value.replace(/[^...]/g, "_") for the character class `keep`
RECURSIVE replaceOutside(_, _)
replaceOutside(s, keep) ==
    IF s = "" THEN ""
    ELSE (IF CharAt(s, 1) \in keep THEN CharAt(s, 1) ELSE "_")
         \o replaceOutside(SubSeq(s, 2, Len(s)), keep)

\* value.replace(/_{2,}/g, "_")
RECURSIVE collapseUnderscores(_)
collapseUnderscores(s) ==
    IF Len(s) < 2 THEN s
    ELSE IF CharAt(s, 1) = "_" /\ CharAt(s, 2) = "_"
         THEN collapseUnderscores(SubSeq(s, 2, Len(s)))
         ELSE CharAt(s, 1) \o collapseUnderscores(SubSeq(s, 2, Len(s)))

\* value.replace(/[^a-z0-9]+/g, "_"): every run outside the class becomes one underscore
RECURSIVE replaceRunsOutside(_, _, _)
replaceRunsOutside(s, keep, inRun) ==
    IF s = "" THEN ""
    ELSE IF CharAt(s, 1) \in keep
         THEN CharAt(s, 1) \o replaceRunsOutside(SubSeq(s, 2, Len(s)), keep, FALSE)
         ELSE (IF inRun THEN "" ELSE "_") \o replaceRunsOutside(SubSeq(s, 2, Len(s)), keep, TRUE)

\* a || b on strings: the empty string is falsy
OrElse(a, b) == IF a = "" THEN b ELSE a

(***************************************************************************)
(* Identifier sanitizer                                                    *)
(***************************************************************************)
\* Mutant: the key grammar with the case-insensitive flag, /^[a-z][a-z0-9_]*$/i
KEY_REGEX_IgnoreCase(value) ==
    /\ value # ""
    /\ CharAt(value, 1) \in Lower \cup Upper
    /\ \A i \in 2..Len(value) : CharAt(value, i) \in Lower \cup Upper \cup Digit \cup {"_"}

\* KEY_REGEX = /^[a-z][a-z0-9_]*$/ , KEY_REGEX.test(value)
KEY_REGEX(value) ==
    /\ value # ""
    /\ CharAt(value, 1) \in Lower
    /\ \A i \in 2..Len(value) : CharAt(value, i) \in KeyChars

slugify(value) ==
    trimEnd(trimStart(replaceRunsOutside(trim(toLowerCase(value)), SlugChars, FALSE),
                      {"_"}), {"_"})

toTypo3Identifier(value) ==
    trimEnd(trimStart(collapseUnderscores(
        replaceOutside(value, IdentifierChars)), {"_"}), {"_"})

\* normalized.split("_").filter(Boolean): the non-empty segments between underscores
RECURSIVE splitParts(_, _)
splitParts(s, cur) ==
    IF s = "" THEN (IF cur = "" THEN <<>> ELSE <<cur>>)
    ELSE IF CharAt(s, 1) = "_"
         THEN (IF cur = "" THEN <<>> ELSE <<cur>>) \o splitParts(SubSeq(s, 2, Len(s)), "")
         ELSE splitParts(SubSeq(s, 2, Len(s)), cur \o CharAt(s, 1))

RECURSIVE joinStr(_, _)
joinStr(parts, sep) ==
    IF parts = <<>> THEN ""
    ELSE IF Len(parts) = 1 THEN parts[1]
    ELSE parts[1] \o sep \o joinStr(Tail(parts), sep)

capitalize(part) == toUpperChar(CharAt(part, 1)) \o toLowerCase(SubSeq(part, 2, Len(part)))

toTemplateName(cType) ==
    LET normalized == toTypo3Identifier(cType)
        parts == splitParts(normalized, "")
    IN  IF normalized = "" THEN "Default"
        ELSE joinStr([i \in 1..Len(parts) |-> capitalize(parts[i])], "")

repeaterTableName(ext, cType, fieldKey) ==
    toTypo3Identifier("tx_" \o ext \o "_" \o cType \o "_" \o fieldKey)

(***************************************************************************)
(* Data model (types.ts).  An optional property is a sequence of length    *)
(* at most one: <<>> is undefined, <<v>> is the value v.                   *)
(***************************************************************************)
Undefined == <<>>
Some(v) == <<v>>
IsDefined(o) == o # <<>>
ValueOf(o) == o[1]

FIELD_TYPES ==
    <<"input", "textarea", "rte", "media", "link", "select", "checkbox", "repeater">>

RESERVED_KEYS ==
    <<"uid", "pid", "tstamp", "crdate", "deleted", "hidden", "sys_language_uid",
      "l10n_parent", "CType", "header", "bodytext">>

Range(s) == {s[i] : i \in DOMAIN s}
includes(arr, v) == v \in Range(arr)

\* field.repeaterFields || []
SubFieldsOf(field) ==
    IF IsDefined(field.repeaterFields) THEN ValueOf(field.repeaterFields) ELSE <<>>

\* !field.options || field.options.length === 0
NoOptions(field) == ~IsDefined(field.options) \/ Len(ValueOf(field.options)) = 0

(***************************************************************************)
(* Spec validator                                                          *)
(***************************************************************************)
GrammarMsg == "Field key must be snake_case and start with a letter."
ReservedMsg(key) == "Field key \"" \o key \o "\" is reserved by TYPO3."
UniqueMsg(key) == "Field key \"" \o key \o "\" must be unique."
EmptyRepeaterMsg == "Repeater must contain at least one sub-field."
NestedMsg == "Nested repeater depth > 1 is not allowed in MVP."
SubSelectMsg(key) == "Repeater sub-field \"" \o key \o "\" must contain select options."
SelectMsg == "Select field must contain at least one option."
ExtKeyMsg == "Extension key must be snake_case and start with a letter."
CTypeMsg == "CType key must be snake_case and start with a letter."
NameMsg == "Content element name is required."
NoFieldsMsg == "Add at least one field."

\* Mutant: the key joins the pool before the uniqueness rule looks it up
ensureFieldKeyValidation_AddBeforeCheck(field, errors, keyPool) ==
    [errors |->
        errors
        \o (IF field.key = "" \/ ~KEY_REGEX(field.key) THEN <<GrammarMsg>> ELSE <<>>)
        \o (IF includes(RESERVED_KEYS, field.key) THEN <<ReservedMsg(field.key)>> ELSE <<>>)
        \o <<UniqueMsg(field.key)>>,
     keyPool |-> keyPool \cup {field.key}]

\* Mutant: the key is never added to the pool
ensureFieldKeyValidation_NeverAdds(field, errors, keyPool) ==
    [errors |->
        errors
        \o (IF field.key = "" \/ ~KEY_REGEX(field.key) THEN <<GrammarMsg>> ELSE <<>>)
        \o (IF includes(RESERVED_KEYS, field.key) THEN <<ReservedMsg(field.key)>> ELSE <<>>)
        \o (IF field.key \in keyPool THEN <<UniqueMsg(field.key)>> ELSE <<>>),
     keyPool |-> keyPool]

\* Mutant: the rules chained with else-if, the first broken rule hiding the others
ensureFieldKeyValidation_ElseIf(field, errors, keyPool) ==
    [errors |->
        errors
        \o (IF field.key = "" \/ ~KEY_REGEX(field.key) THEN <<GrammarMsg>>
            ELSE IF includes(RESERVED_KEYS, field.key) THEN <<ReservedMsg(field.key)>>
            ELSE IF field.key \in keyPool THEN <<UniqueMsg(field.key)>>
            ELSE <<>>),
     keyPool |-> keyPool \cup {field.key}]

\* The three key rules push onto `errors`; the key joins `keyPool` afterwards.
ensureFieldKeyValidation(field, errors, keyPool) ==
    [errors |->
        errors
        \o (IF field.key = "" \/ ~KEY_REGEX(field.key) THEN <<GrammarMsg>> ELSE <<>>)
        \o (IF includes(RESERVED_KEYS, field.key) THEN <<ReservedMsg(field.key)>> ELSE <<>>)
        \o (IF field.key \in keyPool THEN <<UniqueMsg(field.key)>> ELSE <<>>),
     keyPool |-> keyPool \cup {field.key}]

\* The loop over field.repeaterFields with its own repeaterSeen set.
RECURSIVE validateSubFields(_, _, _, _)
validateSubFields(subFields, j, errors, repeaterSeen) ==
    IF j > Len(subFields) THEN errors
    ELSE LET subField == subFields[j]
             keyed == ensureFieldKeyValidation(subField, errors, repeaterSeen)
             withSelect ==
                 IF subField.type = "select" /\ NoOptions(subField)
                 THEN keyed.errors \o <<SubSelectMsg(subField.key)>>
                 ELSE keyed.errors
         IN  validateSubFields(subFields, j + 1, withSelect, keyed.keyPool)

\* Mutant: the sub-field loop is skipped once a nested repeater is found
validateField_StopsAtNested(field, seenTopLevel) ==
    LET keyed == ensureFieldKeyValidation(field, <<>>, seenTopLevel)
        subFields == SubFieldsOf(field)
        nested == \E j \in DOMAIN subFields : subFields[j].type = "repeater"
        afterRepeater ==
            IF field.type = "repeater"
            THEN IF nested
                 THEN keyed.errors
                      \o (IF Len(subFields) = 0 THEN <<EmptyRepeaterMsg>> ELSE <<>>)
                      \o <<NestedMsg>>
                 ELSE validateSubFields(subFields, 1,
                          keyed.errors
                          \o (IF Len(subFields) = 0 THEN <<EmptyRepeaterMsg>> ELSE <<>>),
                          {})
            ELSE keyed.errors
        afterSelect ==
            IF field.type = "select" /\ NoOptions(field)
            THEN afterRepeater \o <<SelectMsg>>
            ELSE afterRepeater
    IN  [errors |-> afterSelect, keyPool |-> keyed.keyPool]

\* Mutant: the children are checked against the top-level key set
validateField_SharedKeyPool(field, seenTopLevel) ==
    LET keyed == ensureFieldKeyValidation(field, <<>>, seenTopLevel)
        subFields == SubFieldsOf(field)
        afterRepeater ==
            IF field.type = "repeater"
            THEN validateSubFields(subFields, 1,
                     keyed.errors
                     \o (IF Len(subFields) = 0 THEN <<EmptyRepeaterMsg>> ELSE <<>>)
                     \o (IF \E j \in DOMAIN subFields : subFields[j].type = "repeater"
                         THEN <<NestedMsg>> ELSE <<>>),
                     keyed.keyPool)
            ELSE keyed.errors
        afterSelect ==
            IF field.type = "select" /\ NoOptions(field)
            THEN afterRepeater \o <<SelectMsg>>
            ELSE afterRepeater
    IN  [errors |-> afterSelect, keyPool |-> keyed.keyPool]

\* The body of the loop over spec.fields: the `errors` array of one top-level field.
validateField(field, seenTopLevel) ==
    LET keyed == ensureFieldKeyValidation(field, <<>>, seenTopLevel)
        subFields == SubFieldsOf(field)
        afterRepeater ==
            IF field.type = "repeater"
            THEN validateSubFields(subFields, 1,
                     keyed.errors
                     \o (IF Len(subFields) = 0 THEN <<EmptyRepeaterMsg>> ELSE <<>>)
                     \o (IF \E j \in DOMAIN subFields : subFields[j].type = "repeater"
                         THEN <<NestedMsg>> ELSE <<>>),
                     {})
            ELSE keyed.errors
        afterSelect ==
            IF field.type = "select" /\ NoOptions(field)
            THEN afterRepeater \o <<SelectMsg>>
            ELSE afterRepeater
    IN  [errors |-> afterSelect, keyPool |-> keyed.keyPool]

\* fieldErrors[field.id] = errors, a later assignment to the same id replacing the earlier
AssignErrors(fieldErrors, id, errors) ==
    [k \in DOMAIN fieldErrors \cup {id} |-> IF k = id THEN errors ELSE fieldErrors[k]]

\* Mutant: every field gets an entry, an empty list when it has no error
RECURSIVE validateFields_AlwaysAssigns(_, _, _, _)
validateFields_AlwaysAssigns(fields, i, fieldErrors, seenTopLevel) ==
    IF i > Len(fields) THEN fieldErrors
    ELSE LET r == validateField(fields[i], seenTopLevel)
         IN  validateFields_AlwaysAssigns(fields, i + 1,
                 AssignErrors(fieldErrors, fields[i].id, r.errors), r.keyPool)

RECURSIVE validateFields(_, _, _, _)
validateFields(fields, i, fieldErrors, seenTopLevel) ==
    IF i > Len(fields) THEN fieldErrors
    ELSE LET r == validateField(fields[i], seenTopLevel)
         IN  validateFields(fields, i + 1,
                 IF Len(r.errors) > 0 THEN AssignErrors(fieldErrors, fields[i].id, r.errors)
                 ELSE fieldErrors,
                 r.keyPool)

validateSpec(s) ==
    [formErrors |->
        (IF s.meta.extensionKey = "" \/ ~KEY_REGEX(s.meta.extensionKey)
         THEN <<ExtKeyMsg>> ELSE <<>>)
        \o (IF s.meta.cTypeKey = "" \/ ~KEY_REGEX(s.meta.cTypeKey) THEN <<CTypeMsg>> ELSE <<>>)
        \o (IF trim(s.meta.elementName) = "" THEN <<NameMsg>> ELSE <<>>)
        \o (IF Len(s.fields) = 0 THEN <<NoFieldsMsg>> ELSE <<>>),
     fieldErrors |-> validateFields(s.fields, 1, <<>>, {})]


(***************************************************************************)
(* Document generators.  A document is a record of the parts of its text   *)
(* that come from the spec; the fixed text around them is the `doc` name.  *)
(***************************************************************************)
RECURSIVE mapChars(_, _)
mapChars(s, table) ==
    IF s = "" THEN ""
    ELSE (IF CharAt(s, 1) \in DOMAIN table THEN table[CharAt(s, 1)] ELSE CharAt(s, 1))
         \o mapChars(SubSeq(s, 2, Len(s)), table)

xmlEscape(value) ==
    mapChars(value, [c \in {"&", "<", ">", "\"", "'"} |->
        CASE c = "&" -> "&amp;" [] c = "<" -> "&lt;" [] c = ">" -> "&gt;"
          [] c = "\"" -> "&quot;" [] c = "'" -> "&apos;"])

phpSingleQuoteEscape(value) ==
    mapChars(value, [c \in {"\\", "'"} |-> IF c = "\\" THEN "\\\\" ELSE "\\'"])

\* the ASCII characters of codes 32 to 95, and of codes 97 to 126
AsciiTo95 == " !\"#$%&'()*+,-./0123456789:;<=>?@ABCDEFGHIJKLMNOPQRSTUVWXYZ[\\]^_"
AsciiFrom97 == "abcdefghijklmnopqrstuvwxyz{|}~"

charCodeAt(c) ==
    CASE c = "\t" -> 9 [] c = "\n" -> 10 [] c = "\r" -> 13
      [] c \in CharsOf(AsciiFrom97) -> 96 + IndexIn(c, AsciiFrom97)
      [] OTHER -> 31 + IndexIn(c, AsciiTo95)

RECURSIVE sumCharCodes(_)
sumCharCodes(s) ==
    IF s = "" THEN 0 ELSE charCodeAt(CharAt(s, 1)) + sumCharCodes(SubSeq(s, 2, Len(s)))

PaletteSize == 6

generateInitialIconSvg(s) ==
    LET seed == trim(s.meta.elementName \o s.meta.cTypeKey)
    IN  [doc |-> "icon.svg",
         ariaLabel |-> xmlEscape(OrElse(s.meta.elementName, "Content Element")),
         initial |-> xmlEscape(toUpperChar(IF seed = "" THEN "C" ELSE CharAt(seed, 1))),
         palette |-> sumCharCodes(seed) % PaletteSize]

repeaterFields(s) == SelectSeq(s.fields, LAMBDA field : field.type = "repeater")

\* value ?? fallback on an optional number
Nullish(o, fallback) == IF IsDefined(o) THEN ValueOf(o) ELSE fallback

MapSeq(seq, Op(_)) == [i \in DOMAIN seq |-> Op(seq[i])]

\* the schema descriptor of one field, with `.replace("__EXT__", ext)` applied
tcaConfigByField(field, ext, cType) ==
    LET label == "LLL:EXT:" \o ext \o "/Resources/Private/Language/locallang_"
                 \o toTypo3Identifier(cType) \o ".xlf:field." \o field.key \o ".label"
    IN  CASE field.type = "input" ->
               [label |-> label, type |-> "input",
                eval |-> IF field.required THEN "trim,required" ELSE "trim",
                max |-> Nullish(field.maxLength, 255)]
          [] field.type \in {"textarea", "rte"} ->
               [label |-> label, type |-> "text",
                rows |-> IF field.type = "rte" THEN 8 ELSE 5,
                enableRichtext |-> field.type = "rte"]
          [] field.type = "media" ->
               [label |-> label, type |-> "file", maxitems |-> Nullish(field.maxItems, 1)]
          [] field.type = "link" ->
               [label |-> label, type |-> "input", renderType |-> "inputLink"]
          [] field.type = "select" ->
               [label |-> label, type |-> "select", renderType |-> "selectSingle",
                items |-> MapSeq(IF IsDefined(field.options) THEN ValueOf(field.options)
                                 ELSE <<"Option">>, phpSingleQuoteEscape)]
          [] field.type = "checkbox" ->
               [label |-> label, type |-> "check", default |-> 0]
          [] field.type = "repeater" ->
               [label |-> label, type |-> "inline",
                foreign_table |-> repeaterTableName(ext, cType, field.key),
                parentfield |-> toTypo3Identifier(field.key),
                minitems |-> IF field.required THEN 1 ELSE 0,
                maxitems |-> Nullish(field.maxItems, 999)]
          [] OTHER ->
               [label |-> label, type |-> "text", rows |-> 5]

TcaColumn(field, ext, cType) ==
    [key |-> toTypo3Identifier(field.key), config |-> tcaConfigByField(field, ext, cType)]

generateTcaOverridePhp(s) ==
    LET ext == toTypo3Identifier(s.meta.extensionKey)
        cType == toTypo3Identifier(s.meta.cTypeKey)
    IN  [doc |-> "tt_content override",
         cType |-> cType,
         icon |-> toTypo3Identifier(OrElse(s.meta.iconName, cType \o "_icon")),
         group |-> toTypo3Identifier(OrElse(s.meta.group, "default")),
         titleLabel |-> "LLL:EXT:" \o ext \o "/Resources/Private/Language/locallang_"
                        \o cType \o ".xlf:ce." \o cType \o ".title",
         tcaColumns |-> [i \in DOMAIN s.fields |-> TcaColumn(s.fields[i], ext, cType)],
         showItems |-> [i \in DOMAIN s.fields |-> toTypo3Identifier(s.fields[i].key)]]

generateIconsPhp(s) ==
    [doc |-> "Icons.php",
     ext |-> toTypo3Identifier(s.meta.extensionKey),
     icon |-> toTypo3Identifier(OrElse(s.meta.iconName, s.meta.cTypeKey \o "_icon"))]

generateTypoScriptSetup(s) ==
    LET cType == toTypo3Identifier(s.meta.cTypeKey)
        ext == toTypo3Identifier(s.meta.extensionKey)
        mediaFields == SelectSeq(s.fields, LAMBDA field : field.type = "media")
        reps == repeaterFields(s)
    IN  [doc |-> "element typoscript",
         cType |-> cType, templateName |-> toTemplateName(cType), ext |-> ext,
         media |-> [i \in DOMAIN mediaFields |->
                       [index |-> 120 + (i - 1) * 2,
                        fieldName |-> toTypo3Identifier(mediaFields[i].key)]],
         repeaters |-> [i \in DOMAIN reps |->
                       [index |-> 210 + (i - 1),
                        table |-> repeaterTableName(ext, cType, reps[i].key),
                        as |-> toTypo3Identifier(reps[i].key),
                        childMedia |->
                            MapSeq(SelectSeq(SubFieldsOf(reps[i]),
                                             LAMBDA subField : subField.type = "media"),
                                   LAMBDA mediaField : toTypo3Identifier(mediaField.key))]]]

generateTypoScriptConstants(s) ==
    [doc |-> "constants.typoscript", ext |-> toTypo3Identifier(s.meta.extensionKey)]

generateExtEmconfPhp(s) ==
    [doc |-> "ext_emconf.php",
     title |-> phpSingleQuoteEscape(s.meta.elementName),
     cType |-> toTypo3Identifier(s.meta.cTypeKey)]

generateComposerJson(s) ==
    LET ext == toTypo3Identifier(s.meta.extensionKey)
        vendor == toTypo3Identifier(OrElse(s.meta.vendorName, "vendor"))
    IN  [doc |-> "composer.json", name |-> vendor \o "/" \o ext,
         elementName |-> s.meta.elementName, extensionKey |-> ext]

generateImportReadme(s) ==
    [doc |-> "README_IMPORT.md",
     ext |-> toTypo3Identifier(s.meta.extensionKey),
     cType |-> toTypo3Identifier(s.meta.cTypeKey)]

generatePageTsConfig(s) ==
    LET cType == toTypo3Identifier(s.meta.cTypeKey)
    IN  [doc |-> "element tsconfig",
         ext |-> toTypo3Identifier(s.meta.extensionKey),
         cType |-> cType,
         icon |-> toTypo3Identifier(OrElse(s.meta.iconName, cType \o "_icon")),
         group |-> toTypo3Identifier(OrElse(s.meta.group, "custom")),
         header |-> OrElse(s.meta.group, "Custom"),
         templateName |-> toTemplateName(cType)]

generatePageTsConfigImport(s) ==
    "@import 'EXT:" \o toTypo3Identifier(s.meta.extensionKey)
    \o "/Configuration/TsConfig/Page/ContentElement/Element/"
    \o toTemplateName(toTypo3Identifier(s.meta.cTypeKey)) \o ".tsconfig'"

generateTypoScriptSetupImport(s) ==
    "@import 'EXT:" \o toTypo3Identifier(s.meta.extensionKey)
    \o "/Configuration/TypoScript/ContentElement/Element/"
    \o toTemplateName(toTypo3Identifier(s.meta.cTypeKey)) \o ".typoscript'"

generateExtTablesPhp(s) ==
    LET ext == toTypo3Identifier(s.meta.extensionKey)
        cType == toTypo3Identifier(s.meta.cTypeKey)
    IN  [doc |-> "ext_tables.php",
         allowTables |-> MapSeq(repeaterFields(s),
                                LAMBDA field : repeaterTableName(ext, cType, field.key))]

generateExtLocalconfPhp(s) ==
    [doc |-> "ext_localconf.php", ext |-> toTypo3Identifier(s.meta.extensionKey)]

generateSysTemplateOverridePhp(s) ==
    [doc |-> "sys_template override",
     ext |-> toTypo3Identifier(s.meta.extensionKey),
     title |-> phpSingleQuoteEscape(s.meta.elementName \o " ("
                                    \o toTypo3Identifier(s.meta.cTypeKey) \o ")")]

generateBackendPreviewTemplate(s) ==
    [doc |-> "preview template",
     title |-> xmlEscape(s.meta.elementName),
     cType |-> toTypo3Identifier(s.meta.cTypeKey),
     previewRows |-> [i \in DOMAIN s.fields |->
         [key |-> toTypo3Identifier(s.fields[i].key),
          label |-> xmlEscape(s.fields[i].label),
          value |-> CASE s.fields[i].type = "checkbox" -> "Enabled"
                      [] s.fields[i].type = "media" -> "Image attached"
                      [] s.fields[i].type = "repeater" -> "item(s)"
                      [] OTHER -> "crop"]]]

TransUnit(id, source) == [id |-> id, source |-> source]

RECURSIVE flatten(_)
flatten(seqs) == IF seqs = <<>> THEN <<>> ELSE Head(seqs) \o flatten(Tail(seqs))

\* the translation catalog; `now` is the value of new Date() when it is generated
generateLocallangXlf(s, now) ==
    LET cType == toTypo3Identifier(s.meta.cTypeKey)
        unitsOf(field) ==
            <<TransUnit("field." \o field.key \o ".label", xmlEscape(field.label))>>
            \o (IF field.type # "repeater" THEN <<>>
                ELSE flatten(MapSeq(SubFieldsOf(field), LAMBDA subField :
                        <<TransUnit("field." \o subField.key \o ".label",
                                    xmlEscape(subField.label)),
                          TransUnit("field." \o field.key \o "." \o subField.key \o ".label",
                                    xmlEscape(subField.label))>>)))
    IN  [doc |-> "locallang.xlf",
         date |-> now,
         units |-> <<TransUnit("ce." \o cType \o ".title", xmlEscape(s.meta.elementName)),
                     TransUnit("ce." \o cType \o ".description",
                               xmlEscape(s.meta.elementName) \o " content element")>>
                   \o flatten(MapSeq(s.fields, unitsOf))]

\* the project metadata; `now` is the value of new Date() when it is generated
generateManifest(s, now) ==
    [doc |-> "manifest.json", generatedAt |-> now,
     vendor |-> s.meta.vendorName, cType |-> s.meta.cTypeKey,
     extensionKey |-> s.meta.extensionKey]

generateRepeaterTableTcaPhp(s, field) ==
    LET ext == toTypo3Identifier(s.meta.extensionKey)
        cType == toTypo3Identifier(s.meta.cTypeKey)
        subFields == SubFieldsOf(field)
    IN  [doc |-> "child table TCA",
         table |-> repeaterTableName(ext, cType, field.key),
         title |-> "LLL:EXT:" \o ext \o "/Resources/Private/Language/locallang_" \o cType
                   \o ".xlf:field." \o toTypo3Identifier(field.key) \o ".label",
         label |-> toTypo3Identifier(IF subFields = <<>> THEN "uid"
                                     ELSE OrElse(subFields[1].key, "uid")),
         searchFields |-> MapSeq(subFields, LAMBDA f : toTypo3Identifier(f.key)),
         iconfile |-> "EXT:" \o ext \o "/Resources/Public/Icons/"
                      \o toTypo3Identifier(OrElse(s.meta.iconName, "default")) \o ".svg",
         passthrough |-> <<"pid", "parentid", "parenttable", "parentfield">>,
         columns |-> [j \in DOMAIN subFields |-> TcaColumn(subFields[j], ext, cType)],
         showItems |-> MapSeq(subFields, LAMBDA f : toTypo3Identifier(f.key))]

\* Mutant: a link field falls through to the text column
TtContentColumnType_LinkAsText(field) ==
    CASE field.type = "repeater" -> "int(11) unsigned DEFAULT '0' NOT NULL"
      [] field.type = "checkbox" -> "smallint(5) unsigned DEFAULT '0' NOT NULL"
      [] field.type = "media" -> "int(11) unsigned DEFAULT '0' NOT NULL"
      [] field.type \in {"input", "select"} -> "varchar(255) DEFAULT '' NOT NULL"
      [] OTHER -> "text"

\* the column definition generateExtTablesSql emits for a field of the base table
TtContentColumnType(field) ==
    CASE field.type = "repeater" -> "int(11) unsigned DEFAULT '0' NOT NULL"
      [] field.type = "checkbox" -> "smallint(5) unsigned DEFAULT '0' NOT NULL"
      [] field.type = "media" -> "int(11) unsigned DEFAULT '0' NOT NULL"
      [] field.type \in {"input", "link", "select"} -> "varchar(255) DEFAULT '' NOT NULL"
      [] OTHER -> "text"

\* the column definition generateExtTablesSql emits for a field of a child table
ChildColumnType(subField) ==
    CASE subField.type = "checkbox" -> "smallint(5) unsigned DEFAULT '0' NOT NULL"
      [] subField.type = "media" -> "int(11) unsigned DEFAULT '0' NOT NULL"
      [] subField.type \in {"input", "link", "select"} -> "varchar(255) DEFAULT '' NOT NULL"
      [] OTHER -> "text"

\* the fixed columns of a child table
ChildTableFixedColumns ==
    <<"uid", "pid", "tstamp", "crdate", "cruser_id", "deleted", "hidden", "sorting",
      "parentid", "parenttable", "parentfield">>

\* the storage DDL: the lines of the tt_content statement, then one CREATE TABLE
\* statement per repeater field
generateExtTablesSql(s) ==
    LET ext == toTypo3Identifier(s.meta.extensionKey)
        cType == toTypo3Identifier(s.meta.cTypeKey)
    IN  [doc |-> "ext_tables.sql",
         ttContentColumns |->
             MapSeq(s.fields, LAMBDA field :
                 "  " \o toTypo3Identifier(field.key) \o " " \o TtContentColumnType(field)),
         repeaterTablesSql |->
             MapSeq(repeaterFields(s), LAMBDA field :
                 [table |-> repeaterTableName(ext, cType, field.key),
                  fixedColumns |-> ChildTableFixedColumns,
                  childColumns |->
                      MapSeq(SubFieldsOf(field), LAMBDA subField :
                          "  " \o toTypo3Identifier(subField.key) \o " "
                          \o ChildColumnType(subField))])]

\* renderFieldValue(field, scope) of generateTemplate
renderFieldValue(field, scope) ==
    LET source == "{" \o scope \o "." \o field.key \o "}"
    IN  CASE field.type = "rte" -> "{" \o scope \o "." \o field.key \o " -> f:format.raw()}"
          [] field.type = "checkbox" ->
               "<f:if condition=\"" \o source \o "\"><span>Enabled</span></f:if>"
          [] field.type = "media" ->
               "<f:if condition=\"" \o source \o "\"><span>[Media selected]</span></f:if>"
          [] OTHER -> source

\* the line generateTemplate gives one top-level field
templateLine(field) ==
    LET safeLabel == xmlEscape(field.label)
        nonRepeaterFields == SelectSeq(SubFieldsOf(field), LAMBDA f : f.type # "repeater")
        itemContent ==
            IF Len(nonRepeaterFields) > 0
            THEN joinStr(MapSeq(nonRepeaterFields, LAMBDA f :
                     IF f.type = "media"
                     THEN "<f:if condition=\"{item." \o f.key \o "Files}\"><f:for each=\"{item."
                          \o f.key \o "Files}\" as=\"file\"><f:image image=\"{file}\" alt=\""
                          \o xmlEscape(f.label) \o "\" /></f:for></f:if>"
                     ELSE "<p><strong>" \o xmlEscape(f.label) \o ":</strong> "
                          \o renderFieldValue(f, "item") \o "</p>"), "")
            ELSE "<p>[Repeater item]</p>"
    IN  CASE field.type = "checkbox" ->
               "  <f:if condition=\"{data." \o field.key \o "}\"><p>" \o safeLabel
               \o ": Enabled</p></f:if>"
          [] field.type = "media" ->
               "  <f:if condition=\"{media_" \o field.key \o "}\"><f:for each=\"{media_"
               \o field.key \o "}\" as=\"file\"><f:image image=\"{file}\" alt=\"" \o safeLabel
               \o "\" /></f:for></f:if>"
          [] field.type = "repeater" ->
               "  <f:if condition=\"{" \o field.key \o "}\"><f:for each=\"{" \o field.key
               \o "}\" as=\"item\"><div class=\"item\">" \o itemContent
               \o "</div></f:for></f:if>"
          [] OTHER ->
               "  <f:if condition=\"{data." \o field.key \o "}\"><p>" \o safeLabel \o ": "
               \o renderFieldValue(field, "data") \o "</p></f:if>"

\* generateTemplate(fields): the lines of the synthesized rendering template
generateTemplate(fields) ==
    <<"<f:layout name=\"Default\" />",
      "<f:section name=\"Main\">",
      "<section class=\"ce-builder-output\">">>
    \o MapSeq(fields, templateLine)
    \o <<"</section>", "</f:section>">>

\* Mutant: the template is returned as it is
resolveTemplateHtml_Verbatim(s) == [doc |-> "template", text |-> s.templateHtml]

resolveTemplateHtml(s) == [doc |-> "template", text |-> trim(s.templateHtml)]

EmptyFile == [doc |-> "empty", text |-> ""]

(***************************************************************************)
(* File-set assembler                                                      *)
(***************************************************************************)
Entry(path, content) == [path |-> path, content |-> content]

\* an object built from entries in order: a later entry replaces an earlier one of
\* the same path
FromEntries(entries) ==
    [p \in {entries[n].path : n \in DOMAIN entries} |->
        LET last == CHOOSE n \in DOMAIN entries :
                        /\ entries[n].path = p
                        /\ \A m \in DOMAIN entries : entries[m].path = p => m <= n
        IN  entries[last].content]

\* Mutant: the child-table schema files are left out of the listing
listGeneratedFilePaths_NoRepeaterFiles(s) ==
    LET base == s.meta.extensionKey
        cType == toTypo3Identifier(s.meta.cTypeKey)
        templateName == toTemplateName(cType)
        iconName == toTypo3Identifier(OrElse(s.meta.iconName, "default"))
    IN  <<base \o "/README_IMPORT.md",
          base \o "/composer.json",
          base \o "/ext_emconf.php",
          base \o "/manifest.json",
          base \o "/spec.json",
          base \o "/ext_tables.php",
          base \o "/ext_localconf.php",
          base \o "/ext_tables.sql",
          base \o "/Configuration/Icons.php",
          base \o "/Configuration/page.tsconfig",
          base \o "/Configuration/TsConfig/Page/ContentElement/Element/" \o templateName
               \o ".tsconfig",
          base \o "/Configuration/TCA/Overrides/sys_template.php",
          base \o "/Configuration/TCA/Overrides/tt_content_" \o cType \o ".php",
          base \o "/Configuration/TypoScript/constants.typoscript",
          base \o "/Configuration/TypoScript/setup.typoscript",
          base \o "/Configuration/TypoScript/ContentElement/Element/" \o templateName
               \o ".typoscript",
          base \o "/Resources/Private/Templates/ContentElements/" \o templateName \o ".html",
          base \o "/Resources/Private/Templates/Preview/" \o templateName \o ".html",
          base \o "/Resources/Private/Partials/.gitkeep",
          base \o "/Resources/Private/Layouts/.gitkeep",
          base \o "/Resources/Private/Language/locallang_" \o cType \o ".xlf",
          base \o "/Resources/Public/Icons/" \o iconName \o ".svg">>

\* the entries of the object literal buildGeneratedFiles returns, in source order;
\* nowManifest and nowXlf are the values new Date() gives generateManifest and
\* generateLocallangXlf
GeneratedFileEntries(s, nowManifest, nowXlf) ==
    LET base == s.meta.extensionKey
        cType == toTypo3Identifier(s.meta.cTypeKey)
        templateName == toTemplateName(cType)
        iconName == toTypo3Identifier(OrElse(s.meta.iconName, "default"))
        ext == toTypo3Identifier(s.meta.extensionKey)
        repeaterTableFiles ==
            MapSeq(repeaterFields(s), LAMBDA field :
                Entry(base \o "/Configuration/TCA/"
                      \o repeaterTableName(ext, cType, field.key) \o ".php",
                      generateRepeaterTableTcaPhp(s, field)))
    IN  <<Entry(base \o "/README_IMPORT.md", generateImportReadme(s)),
          Entry(base \o "/composer.json", generateComposerJson(s)),
          Entry(base \o "/ext_emconf.php", generateExtEmconfPhp(s)),
          Entry(base \o "/manifest.json", generateManifest(s, nowManifest)),
          Entry(base \o "/spec.json", [doc |-> "spec.json", value |-> s]),
          Entry(base \o "/ext_tables.php", generateExtTablesPhp(s)),
          Entry(base \o "/ext_localconf.php", generateExtLocalconfPhp(s)),
          Entry(base \o "/ext_tables.sql", generateExtTablesSql(s)),
          Entry(base \o "/Configuration/Icons.php", generateIconsPhp(s)),
          Entry(base \o "/Configuration/page.tsconfig",
                [doc |-> "imports", text |-> generatePageTsConfigImport(s) \o "\n"]),
          Entry(base \o "/Configuration/TsConfig/Page/ContentElement/Element/"
                     \o templateName \o ".tsconfig", generatePageTsConfig(s)),
          Entry(base \o "/Configuration/TCA/Overrides/sys_template.php",
                generateSysTemplateOverridePhp(s)),
          Entry(base \o "/Configuration/TCA/Overrides/tt_content_" \o cType \o ".php",
                generateTcaOverridePhp(s))>>
        \o repeaterTableFiles
        \o <<Entry(base \o "/Configuration/TypoScript/constants.typoscript",
                   generateTypoScriptConstants(s)),
             Entry(base \o "/Configuration/TypoScript/setup.typoscript",
                   [doc |-> "imports", text |-> generateTypoScriptSetupImport(s) \o "\n"]),
             Entry(base \o "/Configuration/TypoScript/ContentElement/Element/"
                        \o templateName \o ".typoscript", generateTypoScriptSetup(s)),
             Entry(base \o "/Resources/Private/Templates/ContentElements/"
                        \o templateName \o ".html", resolveTemplateHtml(s)),
             Entry(base \o "/Resources/Private/Templates/Preview/" \o templateName \o ".html",
                   generateBackendPreviewTemplate(s)),
             Entry(base \o "/Resources/Private/Partials/.gitkeep", EmptyFile),
             Entry(base \o "/Resources/Private/Layouts/.gitkeep", EmptyFile),
             Entry(base \o "/Resources/Private/Language/locallang_" \o cType \o ".xlf",
                   generateLocallangXlf(s, nowXlf)),
             Entry(base \o "/Resources/Public/Icons/" \o iconName \o ".svg",
                   generateInitialIconSvg(s))>>

buildGeneratedFiles(s, nowManifest, nowXlf) ==
    FromEntries(GeneratedFileEntries(s, nowManifest, nowXlf))

listGeneratedFilePaths(s) ==
    LET base == s.meta.extensionKey
        cType == toTypo3Identifier(s.meta.cTypeKey)
        templateName == toTemplateName(cType)
        iconName == toTypo3Identifier(OrElse(s.meta.iconName, "default"))
        ext == toTypo3Identifier(s.meta.extensionKey)
        repeaterTcaFiles ==
            MapSeq(repeaterFields(s), LAMBDA field :
                base \o "/Configuration/TCA/" \o repeaterTableName(ext, cType, field.key)
                \o ".php")
    IN  <<base \o "/README_IMPORT.md",
          base \o "/composer.json",
          base \o "/ext_emconf.php",
          base \o "/manifest.json",
          base \o "/spec.json",
          base \o "/ext_tables.php",
          base \o "/ext_localconf.php",
          base \o "/ext_tables.sql",
          base \o "/Configuration/Icons.php",
          base \o "/Configuration/page.tsconfig",
          base \o "/Configuration/TsConfig/Page/ContentElement/Element/" \o templateName
               \o ".tsconfig",
          base \o "/Configuration/TCA/Overrides/sys_template.php",
          base \o "/Configuration/TCA/Overrides/tt_content_" \o cType \o ".php">>
        \o repeaterTcaFiles
        \o <<base \o "/Configuration/TypoScript/constants.typoscript",
             base \o "/Configuration/TypoScript/setup.typoscript",
             base \o "/Configuration/TypoScript/ContentElement/Element/" \o templateName
                  \o ".typoscript",
             base \o "/Resources/Private/Templates/ContentElements/" \o templateName \o ".html",
             base \o "/Resources/Private/Templates/Preview/" \o templateName \o ".html",
             base \o "/Resources/Private/Partials/.gitkeep",
             base \o "/Resources/Private/Layouts/.gitkeep",
             base \o "/Resources/Private/Language/locallang_" \o cType \o ".xlf",
             base \o "/Resources/Public/Icons/" \o iconName \o ".svg">>

(***************************************************************************)
(* Bundle packager (createZipFromSpecs)                                    *)
(***************************************************************************)
\* path.startsWith(prefix)
startsWith(s, prefix) == Len(s) >= Len(prefix) /\ SubSeq(s, 1, Len(prefix)) = prefix

\* writeZipFile(path, content): the call zip.file(zipPath, content) it makes
writeZipFile(base, path, content) ==
    Entry(IF startsWith(path, base \o "/") THEN SubSeq(path, Len(base) + 2, Len(path))
          ELSE path,
          content)

\* Mutant: the extension key and the vendor name are compared as they were typed
mismatch_RawValues(specs) ==
    LET first == specs[1]
        found == SelectSeq(specs, LAMBDA s :
                     \/ s.meta.extensionKey # first.meta.extensionKey
                     \/ s.meta.vendorName # first.meta.vendorName)
    IN  IF found = <<>> THEN Undefined ELSE Some(found[1])

\* specs.find(...): the first spec whose sanitized extension key or vendor name is
\* not that of specs[0], or undefined
mismatch(specs) ==
    LET first == specs[1]
        ext == toTypo3Identifier(first.meta.extensionKey)
        vendor == toTypo3Identifier(OrElse(first.meta.vendorName, "vendor"))
        found == SelectSeq(specs, LAMBDA s :
                     \/ toTypo3Identifier(s.meta.extensionKey) # ext
                     \/ toTypo3Identifier(OrElse(s.meta.vendorName, "vendor")) # vendor)
    IN  IF found = <<>> THEN Undefined ELSE Some(found[1])

MismatchMsg == "All bundled elements must use the same vendor name and extension key."

\* A Map is the sequence of its <<key, value>> entries in insertion order.
MapHas(map, key) == \E n \in DOMAIN map : map[n][1] = key

MapValues(map) == [n \in DOMAIN map |-> map[n][2]]

\* Mutant: set leaves the value of a key the map already has
MapSet_KeepExisting(map, key, value) ==
    IF MapHas(map, key) THEN map ELSE Append(map, <<key, value>>)

\* Map.prototype.set: the value of an existing key is replaced where the key is
MapSet(map, key, value) ==
    IF MapHas(map, key)
    THEN [n \in DOMAIN map |-> IF map[n][1] = key THEN <<key, value>> ELSE map[n]]
    ELSE Append(map, <<key, value>>)

\* specs.forEach((spec) => uniqueByCType.set(toTypo3Identifier(spec.meta.cTypeKey), spec))
RECURSIVE uniqueByCTypeFrom(_, _, _)
uniqueByCTypeFrom(specs, n, map) ==
    IF n > Len(specs) THEN map
    ELSE uniqueByCTypeFrom(specs, n + 1,
             MapSet(map, toTypo3Identifier(specs[n].meta.cTypeKey), specs[n]))

\* Mutant: every spec of the input is bundled
uniqueByCType_NoDedup(specs) == specs

\* bundleSpecs = Array.from(uniqueByCType.values())
uniqueByCType(specs) == MapValues(uniqueByCTypeFrom(specs, 1, <<>>))

\* Array.from(new Set(values)): the values in order of first occurrence
RECURSIVE uniqueValues(_, _)
uniqueValues(values, seen) ==
    IF values = <<>> THEN <<>>
    ELSE IF Head(values) \in seen THEN uniqueValues(Tail(values), seen)
    ELSE <<Head(values)>> \o uniqueValues(Tail(values), seen \cup {Head(values)})

\* line.replace(/,$/, "")
stripTrailingComma(line) ==
    IF line # "" /\ CharAt(line, Len(line)) = "," THEN SubSeq(line, 1, Len(line) - 1)
    ELSE line

\* normalizedLine.replace(/\s+.*/, ""): the text before the first whitespace
RECURSIVE beforeWhitespace(_)
beforeWhitespace(s) ==
    IF s = "" \/ CharAt(s, 1) \in Whitespace THEN ""
    ELSE CharAt(s, 1) \o beforeWhitespace(SubSeq(s, 2, Len(s)))

\* ttMatch[1].split("\n"): the lines of the text between "CREATE TABLE tt_content (\n"
\* and the first "\n);", which are the column lines joined with ",\n"
ttMatchLines(sql) ==
    LET columns == sql.ttContentColumns
    IN  IF columns = <<>> THEN <<"">>
        ELSE [i \in DOMAIN columns |->
                 columns[i] \o (IF i < Len(columns) THEN "," ELSE "")]

\* Mutant: every line is added, whether or not allColumns has its column name
addColumns_NoHasCheck(lines, n, allColumns) ==
    allColumns \o [i \in 1..(Len(lines) - n + 1) |->
                      LET normalizedLine == stripTrailingComma(lines[n + i - 1])
                      IN  <<beforeWhitespace(normalizedLine), "  " \o normalizedLine>>]

\* the forEach over the column lines of one spec: a column name already in
\* allColumns keeps its definition
RECURSIVE addColumns(_, _, _)
addColumns(lines, n, allColumns) ==
    IF n > Len(lines) THEN allColumns
    ELSE LET normalizedLine == stripTrailingComma(lines[n])
             key == beforeWhitespace(normalizedLine)
         IN  addColumns(lines, n + 1,
                 IF ~MapHas(allColumns, key)
                 THEN MapSet(allColumns, key, "  " \o normalizedLine)
                 ELSE allColumns)

\* sql.match(/CREATE TABLE tx_[\s\S]*?\);\n?/g): the statements of the tables
\* whose name starts with tx_
repeaterMatches(sql) ==
    SelectSeq(sql.repeaterTablesSql, LAMBDA block : startsWith(block.table, "tx_"))

\* bundleSpecs.forEach: the column map and the child-table statements collected
\* from the storage DDL of each bundled spec, in order
RECURSIVE mergeExtTablesSql(_, _, _, _)
mergeExtTablesSql(bundleSpecs, n, allColumns, repeaterTableSqlBlocks) ==
    IF n > Len(bundleSpecs)
    THEN [doc |-> "ext_tables.sql",
          ttContentColumns |-> MapValues(allColumns),
          repeaterTablesSql |-> repeaterTableSqlBlocks]
    ELSE LET sql == generateExtTablesSql(bundleSpecs[n])
             lines == SelectSeq(MapSeq(ttMatchLines(sql), trim),
                                LAMBDA line : Len(line) > 0)
         IN  mergeExtTablesSql(bundleSpecs, n + 1, addColumns(lines, 1, allColumns),
                               repeaterTableSqlBlocks \o repeaterMatches(sql))

\* the writeZipFile calls of the last bundleSpecs.forEach for one spec; now is the
\* value new Date() gives generateLocallangXlf
elementWrites(s, ext, base, now) ==
    LET cType == toTypo3Identifier(s.meta.cTypeKey)
        templateName == toTemplateName(cType)
        iconName == toTypo3Identifier(OrElse(s.meta.iconName, "default"))
    IN  <<writeZipFile(base, base \o "/Configuration/TCA/Overrides/tt_content_" \o cType
                             \o ".php", generateTcaOverridePhp(s)),
          writeZipFile(base, base \o "/Configuration/TsConfig/Page/ContentElement/Element/"
                             \o templateName \o ".tsconfig", generatePageTsConfig(s)),
          writeZipFile(base, base \o "/Configuration/TypoScript/ContentElement/Element/"
                             \o templateName \o ".typoscript", generateTypoScriptSetup(s)),
          writeZipFile(base, base \o "/Resources/Private/Templates/ContentElements/"
                             \o templateName \o ".html", resolveTemplateHtml(s)),
          writeZipFile(base, base \o "/Resources/Private/Templates/Preview/"
                             \o templateName \o ".html", generateBackendPreviewTemplate(s)),
          writeZipFile(base, base \o "/Resources/Private/Language/locallang_" \o cType
                             \o ".xlf", generateLocallangXlf(s, now)),
          writeZipFile(base, base \o "/Resources/Public/Icons/" \o iconName \o ".svg",
                       generateInitialIconSvg(s))>>
        \o MapSeq(repeaterFields(s), LAMBDA field :
               writeZipFile(base, base \o "/Configuration/TCA/"
                                  \o repeaterTableName(ext, cType, field.key) \o ".php",
                            generateRepeaterTableTcaPhp(s, field)))

\* the outcome of createZipFromSpecs(specs): the error thrown if any, the
\* zip.file calls made in order, and the files of the blob returned if any.
\* now[1] is the value new Date() gives the manifest and now[k + 1] the value it
\* gives the translation catalog of the k-th bundled spec.
createZipFromSpecs(specs, now) ==
    IF Len(specs) = 0
    THEN [error |-> Undefined, writes |-> <<>>, blob |-> Some(FromEntries(<<>>))]
    ELSE
    LET first == specs[1]
        ext == toTypo3Identifier(first.meta.extensionKey)
        vendor == toTypo3Identifier(OrElse(first.meta.vendorName, "vendor"))
        base == ext
    IN  IF IsDefined(mismatch(specs))
        THEN [error |-> Some(MismatchMsg), writes |-> <<>>, blob |-> Undefined]
        ELSE
        LET bundleSpecs == uniqueByCType(specs)
            iconOf(s) == toTypo3Identifier(OrElse(s.meta.iconName,
                                                  s.meta.cTypeKey \o "_icon"))
            iconEntries == MapSeq(bundleSpecs, iconOf)
            pageTsConfigImports ==
                joinStr(MapSeq(bundleSpecs, generatePageTsConfigImport), "\n")
            typoScriptSetupImports ==
                joinStr(MapSeq(bundleSpecs, generateTypoScriptSetupImport), "\n")
            allowTables ==
                uniqueValues(flatten(MapSeq(bundleSpecs, LAMBDA s :
                    MapSeq(repeaterFields(s), LAMBDA field :
                        repeaterTableName(ext, toTypo3Identifier(s.meta.cTypeKey),
                                          field.key)))), {})
            bundleExtTablesPhp == [doc |-> "ext_tables.php", allowTables |-> allowTables]
            extTablesSql == mergeExtTablesSql(bundleSpecs, 1, <<>>, <<>>)
            sysTemplateOverride ==
                [doc |-> "sys_template override", ext |-> ext,
                 title |-> "Generated Content Elements Bundle"]
            manifest ==
                [doc |-> "manifest.json", generatedAt |-> now[1], vendor |-> vendor,
                 extensionKey |-> ext, mode |-> "bundle",
                 elements |-> MapSeq(bundleSpecs, LAMBDA s :
                     [cType |-> toTypo3Identifier(s.meta.cTypeKey),
                      elementName |-> s.meta.elementName,
                      iconName |-> iconOf(s)])]
            specJson == [doc |-> "spec.json", value |-> bundleSpecs]
            bundleReadme ==
                [doc |-> "README_IMPORT.md", ext |-> ext, vendor |-> vendor,
                 count |-> Len(bundleSpecs),
                 cTypes |-> MapSeq(bundleSpecs, LAMBDA s :
                     [cType |-> toTypo3Identifier(s.meta.cTypeKey),
                      elementName |-> s.meta.elementName])]
            writes ==
                <<writeZipFile(base, base \o "/README_IMPORT.md", bundleReadme),
                  writeZipFile(base, base \o "/composer.json", generateComposerJson(first)),
                  writeZipFile(base, base \o "/ext_emconf.php", generateExtEmconfPhp(first)),
                  writeZipFile(base, base \o "/manifest.json", manifest),
                  writeZipFile(base, base \o "/spec.json", specJson),
                  writeZipFile(base, base \o "/ext_tables.php", bundleExtTablesPhp),
                  writeZipFile(base, base \o "/ext_localconf.php",
                               generateExtLocalconfPhp(first)),
                  writeZipFile(base, base \o "/ext_tables.sql", extTablesSql),
                  writeZipFile(base, base \o "/Configuration/Icons.php",
                               [doc |-> "Icons.php", ext |-> ext, icons |-> iconEntries]),
                  writeZipFile(base, base \o "/Configuration/page.tsconfig",
                               [doc |-> "imports", text |-> pageTsConfigImports \o "\n"]),
                  writeZipFile(base, base \o "/Configuration/TCA/Overrides/sys_template.php",
                               sysTemplateOverride),
                  writeZipFile(base, base \o "/Configuration/TypoScript/constants.typoscript",
                               generateTypoScriptConstants(first)),
                  writeZipFile(base, base \o "/Configuration/TypoScript/setup.typoscript",
                               [doc |-> "imports", text |-> typoScriptSetupImports \o "\n"]),
                  writeZipFile(base, base \o "/Resources/Private/Partials/.gitkeep", EmptyFile),
                  writeZipFile(base, base \o "/Resources/Private/Layouts/.gitkeep", EmptyFile)>>
                \o flatten([k \in DOMAIN bundleSpecs |->
                               elementWrites(bundleSpecs[k], ext, base, now[k + 1])])
        IN  [error |-> Undefined, writes |-> writes, blob |-> Some(FromEntries(writes))]

\* the number of times a call of createZipFromSpecs(specs) reads the clock
clockReads(specs) ==
    IF Len(specs) = 0 \/ IsDefined(mismatch(specs)) THEN 0
    ELSE 1 + Len(uniqueByCType(specs))

(***************************************************************************)
(* Spec interchange (BuilderPage.tsx).  A JSON object is the sequence of   *)
(* its <<name, value>> properties; an array is a sequence.                 *)
(***************************************************************************)
Prop(name, value) == <<name, value>>

\* JSON.stringify leaves out a property whose value is undefined
OptProp(name, o) == IF IsDefined(o) THEN <<Prop(name, ValueOf(o))>> ELSE <<>>

Has(obj, name) == \E n \in DOMAIN obj : obj[n][1] = name
Get(obj, name) == obj[CHOOSE n \in DOMAIN obj : obj[n][1] = name][2]
GetOpt(obj, name) == IF Has(obj, name) THEN Some(Get(obj, name)) ELSE Undefined

RECURSIVE stringifyField(_)
stringifyField(f) ==
    <<Prop("id", f.id), Prop("key", f.key), Prop("label", f.label), Prop("type", f.type),
      Prop("required", f.required)>>
    \o OptProp("maxLength", f.maxLength)
    \o OptProp("maxItems", f.maxItems)
    \o OptProp("options", f.options)
    \o (IF IsDefined(f.repeaterFields)
        THEN <<Prop("repeaterFields",
                    [j \in DOMAIN ValueOf(f.repeaterFields) |->
                        stringifyField(ValueOf(f.repeaterFields)[j])])>>
        ELSE <<>>)

\* JSON.stringify(spec, null, 2)
JSON_stringify(s) ==
    <<Prop("meta",
           <<Prop("vendorName", s.meta.vendorName), Prop("extensionKey", s.meta.extensionKey),
             Prop("elementName", s.meta.elementName), Prop("cTypeKey", s.meta.cTypeKey),
             Prop("iconName", s.meta.iconName), Prop("group", s.meta.group)>>),
      Prop("fields", [i \in DOMAIN s.fields |-> stringifyField(s.fields[i])]),
      Prop("templateHtml", s.templateHtml)>>

RECURSIVE parseField(_)
parseField(obj) ==
    [id |-> Get(obj, "id"), key |-> Get(obj, "key"), type |-> Get(obj, "type"),
     label |-> Get(obj, "label"), required |-> Get(obj, "required"),
     maxLength |-> GetOpt(obj, "maxLength"), maxItems |-> GetOpt(obj, "maxItems"),
     options |-> GetOpt(obj, "options"),
     repeaterFields |->
         IF Has(obj, "repeaterFields")
         THEN Some([j \in DOMAIN Get(obj, "repeaterFields") |->
                       parseField(Get(obj, "repeaterFields")[j])])
         ELSE Undefined]

\* JSON.parse(String(reader.result)) as BuilderSpec
JSON_parse(doc) ==
    [meta |-> [vendorName |-> Get(Get(doc, "meta"), "vendorName"),
               extensionKey |-> Get(Get(doc, "meta"), "extensionKey"),
               elementName |-> Get(Get(doc, "meta"), "elementName"),
               cTypeKey |-> Get(Get(doc, "meta"), "cTypeKey"),
               iconName |-> Get(Get(doc, "meta"), "iconName"),
               group |-> Get(Get(doc, "meta"), "group")],
     fields |-> [i \in DOMAIN Get(doc, "fields") |-> parseField(Get(doc, "fields")[i])],
     templateHtml |-> Get(doc, "templateHtml")]

\* metaSchema.safeParse(meta).success: every value is a string of at least one
\* character
metaSchema(meta) ==
    /\ Len(meta.vendorName) >= 1 /\ Len(meta.extensionKey) >= 1
    /\ Len(meta.elementName) >= 1 /\ Len(meta.cTypeKey) >= 1
    /\ Len(meta.iconName) >= 1 /\ Len(meta.group) >= 1

\* normalizedMeta of importSpec
normalizedMeta(parsed) ==
    [vendorName |-> OrElse(parsed.meta.vendorName, "vendor"),
     extensionKey |-> OrElse(parsed.meta.extensionKey, ""),
     elementName |-> OrElse(parsed.meta.elementName, ""),
     cTypeKey |-> OrElse(parsed.meta.cTypeKey, ""),
     iconName |-> OrElse(parsed.meta.iconName, ""),
     group |-> OrElse(parsed.meta.group, "")]

\* a spec file written (downloadText) or read (FileReader) by the page, and how the
\* page took it
Event(op, content, outcome) == [op |-> op, content |-> content, outcome |-> outcome]

\* status: the status line.  io: the spec files written and read, the validation
\* runs, the assist responses applied and the archives exported, in order.
\* validatedFingerprint: the state hook of that name.  request: the metadata that the
\* generateWithAi call awaiting its response closed over.  steps: the number of
\* handlers run.
InitialUi ==
    [status |-> Undefined, io |-> <<>>, validatedFingerprint |-> Undefined,
     request |-> Undefined, steps |-> 0]

(***************************************************************************)
(* Inputs: the specs the engine is applied to                              *)
(***************************************************************************)
\* makeField: the defaults of a new field of the given type
makeField(id, key, type, options, children) ==
    [id |-> id, key |-> key, type |-> type, label |-> "Label", required |-> FALSE,
     maxLength |-> IF type \in {"input", "textarea"} THEN Some(255) ELSE Undefined,
     maxItems |-> IF type \in {"media", "repeater"} THEN Some(1) ELSE Undefined,
     options |-> options, repeaterFields |-> children]

\* metaForm defaultValues
DefaultMeta ==
    [vendorName |-> "vendor", extensionKey |-> "n2tsitepackage",
     elementName |-> "Feature Grid", cTypeKey |-> "feature_grid",
     iconName |-> "content-feature-grid", group |-> "custom"]

BuilderSpec(meta, fields, templateHtml) ==
    [meta |-> meta, fields |-> fields, templateHtml |-> templateHtml]

\* A kind is a field type with its option list: <<type, options>>
Kind(type, options) == <<type, options>>
TextKinds == {Kind("input", Undefined)}
SelectKinds == {Kind("select", Undefined), Kind("select", Some(<<>>)),
                Kind("select", Some(<<"Option A", "Option B">>))}

Leaves(keys, kinds) ==
    {makeField("", k, kd[1], kd[2], Undefined) : k \in keys, kd \in kinds}

\* top-level fields that count for `size` field definitions
TopFields(size, topKeys, topKinds, repKeys, children) ==
    IF size = 1
    THEN Leaves(topKeys, topKinds)
         \cup {makeField("", k, "repeater", Undefined, Some(<<>>)) : k \in repKeys}
    ELSE {makeField("", k, "repeater", Undefined, Some(ch)) :
              k \in repKeys, ch \in [1..(size - 1) -> children]}

\* every field list of at most `budget` field definitions
RECURSIVE Forests(_, _, _, _, _)
Forests(budget, topKeys, topKinds, repKeys, children) ==
    {<<>>} \cup
    UNION {{<<f>> \o rest :
               f \in TopFields(size, topKeys, topKinds, repKeys, children),
               rest \in Forests(budget - size, topKeys, topKinds, repKeys, children)} :
           size \in 1..budget}

\* ids as makeField draws them: one per field, all different
WithIds(fields) ==
    [i \in DOMAIN fields |->
        [fields[i] EXCEPT
            !.id = "f_" \o ToString(i),
            !.repeaterFields =
                IF IsDefined(@)
                THEN Some([j \in DOMAIN ValueOf(@) |->
                              [ValueOf(@)[j] EXCEPT !.id = "rf_" \o ToString(i) \o "_" \o ToString(j)]])
                ELSE @]]

WithKeysByPosition(fields) ==
    [i \in DOMAIN fields |-> [fields[i] EXCEPT !.key = "k" \o ToString(i)]]

\* valid, reserved, reserved and not snake_case, not snake_case
Keys == {"title", "uid", "CType", "1a"}

KeyInputs ==
    {BuilderSpec(DefaultMeta, WithIds(fs), "") :
        fs \in Forests(MaxNodes, Keys, TextKinds, Keys, Leaves(Keys, TextKinds))}

KindInputs ==
    {BuilderSpec(DefaultMeta, WithIds(WithKeysByPosition(fs)), "") :
        fs \in Forests(MaxNodes, {"k"}, TextKinds \cup SelectKinds, {"k"},
                       Leaves({"title", "CType"},
                              TextKinds \cup SelectKinds \cup {Kind("repeater", Undefined)}))}

MetaInputs ==
    {BuilderSpec([DefaultMeta EXCEPT !.extensionKey = e, !.cTypeKey = c, !.elementName = n],
                 fs, "") :
        e \in {"", "news", "My-Ext"}, c \in {"", "news_teaser", "News Teaser"},
        n \in {"", "  ", "News"},
        fs \in {<<>>, <<makeField("f_1", "headline", "input", Undefined, Undefined)>>}}

\* an imported spec may carry the same id on two fields
SharedIdInputs ==
    {BuilderSpec(DefaultMeta,
                 <<makeField("f_1", k1, "input", Undefined, Undefined),
                   makeField("f_1", k2, "input", Undefined, Undefined)>>, "") :
        k1 \in Keys, k2 \in Keys}

\* an imported spec may name a field type that the builder does not offer
UnknownKindInputs ==
    {BuilderSpec(DefaultMeta,
                 <<makeField("f_1", "headline", top, Undefined, Undefined),
                   makeField("f_2", "items", "repeater", Undefined,
                             Some(<<makeField("rf_2_1", "caption", child, Undefined,
                                              Undefined)>>))>>, "") :
        top \in {"input", "date"}, child \in {"input", "date", "Repeater"}}

ValidatorInputs ==
    KeyInputs \cup KindInputs \cup MetaInputs \cup SharedIdInputs \cup UnknownKindInputs

(***************************************************************************)
(* The validator applied to a spec                                         *)
(***************************************************************************)
Init ==
    /\ spec \in ValidatorInputs
    /\ validation = Undefined
    /\ files = Undefined
    /\ paths = Undefined
    /\ bundle = <<>>
    /\ zip = Undefined
    /\ ui = InitialUi

Validate ==
    /\ validation' = Some(validateSpec(spec))
    /\ UNCHANGED <<spec, files, paths, bundle, zip, ui>>

Next == Validate

Spec == Init /\ [][Next]_vars

(***************************************************************************)
(* The assembler applied to a spec                                         *)
(***************************************************************************)
\* Readings of the clock (new Date()) during one call are drawn from 1..MaxClock.
MaxClock == 2

Templates == {"", "  ", "<p>{data.title}</p>", " <p>{data.title}</p>\n"}

FileMetas ==
    {[DefaultMeta EXCEPT !.extensionKey = e, !.cTypeKey = c, !.iconName = ic] :
        e \in {"news", "My-Ext"}, c \in {"news_teaser", "a1", "a_1", ""},
        ic \in {"", "content-news"}}

FileFieldLists ==
    {WithIds(fs) :
        fs \in Forests(MaxNodes, {"title", "a_b"}, TextKinds, {"items", "a_b"},
                       Leaves({"title"}, TextKinds))}

\* a field of each kind next to a repeater field with a child of each kind
LeafTypes == Range(FIELD_TYPES) \ {"repeater"}

KindFieldLists ==
    {<<makeField("f_1", "first", t1,
                 IF t1 = "select" THEN Some(<<"Option A", "Option B">>) ELSE Undefined,
                 Undefined),
       makeField("f_2", "items", "repeater", Undefined,
                 Some(<<makeField("rf_2_1", "child", t2,
                                  IF t2 = "select" THEN Some(<<"Option A">>) ELSE Undefined,
                                  Undefined)>>))>> :
        t1 \in LeafTypes, t2 \in LeafTypes}

\* field lists whose keys differ as typed and agree once sanitized, whose child keys
\* are names of the fixed child-table columns, and short-text fields of several
\* maximum lengths (the number input of the field card has a minimum of 1 only)
EdgeFieldLists ==
    {WithIds(<<makeField("", k1, "input", Undefined, Undefined),
               makeField("", k2, "input", Undefined, Undefined)>>) :
        k1 \in {"a_b"}, k2 \in {"a_b", "a__b", "a_b_", "title"}}
    \cup {WithIds(<<makeField("", "items", "repeater", Undefined,
                        Some(<<makeField("", c1, "input", Undefined, Undefined),
                               makeField("", c2, "input", Undefined, Undefined)>>))>>) :
            c1 \in {"caption", "sorting"}, c2 \in {"a_b", "parentid", "caption", "caption_"}}
    \cup {WithIds(<<makeField("", "items", "repeater", Undefined,
                        Some(<<makeField("", "caption", "input", Undefined, Undefined)>>)),
                    makeField("", "slides", "repeater", Undefined,
                        Some(<<makeField("", c, "input", Undefined, Undefined)>>))>>) :
            c \in {"caption", "text"}}
    \cup {WithIds(<<[makeField("", "headline", t, Undefined, Undefined)
                        EXCEPT !.maxLength = n]>>) :
            t \in {"input", "textarea"},
            n \in {Undefined, Some(1), Some(120), Some(255), Some(256), Some(1000)}}

FileInputs ==
    {BuilderSpec(DefaultMeta, fs, "") :
        fs \in FileFieldLists \cup KindFieldLists \cup EdgeFieldLists}
    \cup {BuilderSpec(m, fs, t) :
            m \in FileMetas, t \in Templates,
            fs \in {<<>>,
                    WithIds(<<makeField("", "title", "input", Undefined, Undefined),
                              makeField("", "items", "repeater", Undefined,
                                  Some(<<makeField("", "title", "input", Undefined,
                                                   Undefined)>>))>>)}}

InitFiles ==
    /\ spec \in FileInputs
    /\ validation = Undefined
    /\ files = Undefined
    /\ paths = Undefined
    /\ bundle = <<>>
    /\ zip = Undefined
    /\ ui = InitialUi

\* buildGeneratedFiles(spec), called once: the clock is read by generateManifest,
\* then by generateLocallangXlf
Assemble ==
    /\ ~IsDefined(files)
    /\ \E nowManifest \in 1..MaxClock, nowXlf \in 1..MaxClock :
        /\ nowManifest <= nowXlf
        /\ files' = Some(buildGeneratedFiles(spec, nowManifest, nowXlf))
    /\ UNCHANGED <<spec, validation, paths, bundle, zip, ui>>

\* listGeneratedFilePaths(spec), called once
ListPaths ==
    /\ ~IsDefined(paths)
    /\ paths' = Some(listGeneratedFilePaths(spec))
    /\ UNCHANGED <<spec, validation, files, bundle, zip, ui>>

NextFiles == Assemble \/ ListPaths

SpecFiles == InitFiles /\ [][NextFiles]_vars

(***************************************************************************)
(* The bundle packager applied to a list of specs                          *)
(***************************************************************************)
\* every list of at most n members of `pool`
Lists(pool, n) == UNION {[1..k -> pool] : k \in 0..n}

\* <<extensionKey, vendorName>>: equal, different after sanitizing, and different
\* as typed only
Identities ==
    {<<"news", "acme">>, <<"news_", "acme">>, <<"blog", "acme">>, <<"news", "my-co">>,
     <<"news", "my_co">>, <<"news", "">>, <<"news", "vendor">>}

\* bundles of elements that differ in the hosting package they name
IdentityBundles ==
    {[k \in DOMAIN ids |->
         BuilderSpec([vendorName |-> ids[k][2], extensionKey |-> ids[k][1],
                      elementName |-> "El", cTypeKey |-> "el" \o ToString(k),
                      iconName |-> "", group |-> "custom"],
                     <<makeField("f_1", "title", "input", Undefined, Undefined)>>,
                     "<p>{data.title}</p>")] :
        ids \in Lists(Identities, MaxBundle)}

BundleFieldLists ==
    {<<makeField("f_1", "title", "input", Undefined, Undefined)>>,
     <<makeField("f_1", "title", "textarea", Undefined, Undefined),
       makeField("f_2", "items", "repeater", Undefined,
                 Some(<<makeField("rf_2_1", "caption", "input", Undefined, Undefined)>>))>>}

\* elements of one hosting package: the same type key may come more than once
BundleElements ==
    {BuilderSpec([vendorName |-> "acme", extensionKey |-> "news", elementName |-> "El",
                  cTypeKey |-> c, iconName |-> "", group |-> "custom"],
                 fs, "<p>{data.title}</p>") :
        c \in {"teaser", "teaser_", "hero"}, fs \in BundleFieldLists}

\* elements of one hosting package, each with one repeater field: <<type key, key of
\* the repeater field>>
RepeaterElements ==
    {BuilderSpec([vendorName |-> "acme", extensionKey |-> "news", elementName |-> "El",
                  cTypeKey |-> e[1], iconName |-> "", group |-> "custom"],
                 <<makeField("f_1", e[2], "repeater", Undefined,
                       Some(<<makeField("rf_1_1", e[3], "input", Undefined, Undefined)>>))>>,
                 "<p>{data.title}</p>") :
        e \in {<<"a_b", "c", "caption">>, <<"a", "b_c", "title">>, <<"a", "c", "title">>}}

\* elements of one hosting package whose type keys differ in an underscore only
TemplateNameElements ==
    {BuilderSpec([vendorName |-> "acme", extensionKey |-> "news", elementName |-> "El",
                  cTypeKey |-> c, iconName |-> c, group |-> "custom"],
                 <<makeField("f_1", "title", "input", Undefined, Undefined)>>,
                 "<p>{data.title}</p>") :
        c \in {"a1", "a_1"}}

BundleInputs ==
    IdentityBundles \cup Lists(BundleElements, MaxBundle)
    \cup Lists(RepeaterElements, MaxBundle)
    \cup Lists(TemplateNameElements, MaxBundle)

InitBundle ==
    /\ spec = BuilderSpec(DefaultMeta, <<>>, "")
    /\ validation = Undefined
    /\ files = Undefined
    /\ paths = Undefined
    /\ bundle \in BundleInputs
    /\ zip = Undefined
    /\ ui = InitialUi

\* the successive values of new Date() during one call: n readings, none earlier
\* than the one before
Readings(n) ==
    {now \in [1..n -> 1..MaxClock] : \A k \in 1..(n - 1) : now[k] <= now[k + 1]}

\* createZipFromSpecs(bundle), called once
Merge ==
    /\ ~IsDefined(zip)
    /\ \E now \in Readings(clockReads(bundle)) :
        zip' = Some(createZipFromSpecs(bundle, now))
    /\ UNCHANGED <<spec, validation, files, paths, bundle, ui>>

NextBundle == Merge

SpecBundle == InitBundle /\ [][NextBundle]_vars

(***************************************************************************)
(* The builder page writing and reading spec files                         *)
(***************************************************************************)
UiMetas ==
    {[DefaultMeta EXCEPT !.vendorName = v, !.iconName = ic, !.group = g] :
        v \in {"", "acme"}, ic \in {"", "content-news"}, g \in {"", "custom"}}
    \ {[DefaultMeta EXCEPT !.vendorName = "", !.iconName = "", !.group = ""]}

UiFieldLists ==
    {<<>>,
     <<makeField("f_1", "kind", "select", Some(<<"Option A", "Option B">>), Undefined),
       makeField("f_2", "items", "repeater", Undefined,
                 Some(<<makeField("rf_2_1", "caption", "input", Undefined, Undefined)>>))>>}

UiInputs == {BuilderSpec(m, fs, "<p>{data.kind}</p>") : m \in UiMetas, fs \in UiFieldLists}

\* the spec files an earlier download has left on disk
SpecDocuments == {JSON_stringify(s) : s \in UiInputs}

InitUI ==
    /\ spec \in UiInputs
    /\ validation = Undefined
    /\ files = Undefined
    /\ paths = Undefined
    /\ bundle = <<>>
    /\ zip = Undefined
    /\ ui = InitialUi

\* downloadSpec: downloadText(JSON.stringify(spec, null, 2), ...)
downloadSpec ==
    /\ ui.steps < MaxSteps /\ Len(ui.io) < MaxEvents
    /\ ui' = [ui EXCEPT !.io = Append(@, Event("download", JSON_stringify(spec), "ok")),
                        !.steps = @ + 1]
    /\ UNCHANGED <<spec, validation, files, paths, bundle, zip>>

\* importSpec: reader.onload for the chosen spec file.  In a file written by
\* downloadSpec, fields is an array and templateHtml a string.
importSpec(file) ==
    /\ ui.steps < MaxSteps /\ Len(ui.io) < MaxEvents
    /\ LET parsed == JSON_parse(file)
           meta == normalizedMeta(parsed)
       IN  IF ~metaSchema(meta)
           THEN /\ ui' = [ui EXCEPT
                             !.status = Some([type |-> "error",
                                              text |-> "Invalid spec structure."]),
                             !.io = Append(@, Event("import", file, "error")),
                             !.steps = @ + 1]
                /\ spec' = spec
           ELSE /\ spec' = BuilderSpec(meta, parsed.fields, parsed.templateHtml)
                /\ ui' = [ui EXCEPT
                             !.status = Some([type |-> "ok",
                                              text |-> "Spec imported successfully."]),
                             !.io = Append(@, Event("import", file, "ok")),
                             !.validatedFingerprint = Undefined,
                             !.steps = @ + 1]
    /\ UNCHANGED <<validation, files, paths, bundle, zip>>

NextUI == downloadSpec \/ \E file \in SpecDocuments : importSpec(file)

SpecUI == InitUI /\ [][NextUI]_vars

(***************************************************************************)
(* The builder page: editing, validating, assisting and exporting a draft  *)
(***************************************************************************)
\* currentFingerprint
currentFingerprint == JSON_stringify(spec)

\* Mutant: export is unlocked by the stored validation result alone
isExportUnlocked_IgnoresFingerprint ==
    /\ IsDefined(validation)
    /\ ValueOf(validation).formErrors = <<>>
    /\ DOMAIN ValueOf(validation).fieldErrors = {}

\* isExportUnlocked
isExportUnlocked ==
    /\ ui.validatedFingerprint = Some(currentFingerprint)
    /\ IsDefined(validation)
    /\ ValueOf(validation).formErrors = <<>>
    /\ DOMAIN ValueOf(validation).fieldErrors = {}

\* the part of a handler that every handler shares: what it leaves of the page
\* state when it sets the status line to `status`, the validated fingerprint to
\* `fingerprint` and appends `events` to the log
handled(status, fingerprint, events) ==
    [ui EXCEPT !.status = status, !.validatedFingerprint = fingerprint,
               !.io = @ \o events, !.steps = @ + 1]

\* an input of the metadata form: metaForm.register(key, { onChange })
setMetaValue(key, value) ==
    /\ ui.steps < MaxSteps
    /\ spec' = [spec EXCEPT !.meta[key] =
                   IF key \in {"extensionKey", "cTypeKey"} THEN slugify(value) ELSE value]
    /\ ui' = handled(ui.status, ui.validatedFingerprint, <<>>)
    /\ UNCHANGED <<validation, files, paths, bundle, zip>>

\* the template editor: setTemplateHtml(e.target.value)
setTemplateHtml(value) ==
    /\ ui.steps < MaxSteps
    /\ spec' = [spec EXCEPT !.templateHtml = value]
    /\ ui' = handled(ui.status, ui.validatedFingerprint, <<>>)
    /\ UNCHANGED <<validation, files, paths, bundle, zip>>

\* arrayMove(prev, oldIndex, newIndex)
arrayMove(prev, oldIndex, newIndex) ==
    LET rest == SubSeq(prev, 1, oldIndex - 1) \o SubSeq(prev, oldIndex + 1, Len(prev))
    IN  SubSeq(rest, 1, newIndex - 1) \o <<prev[oldIndex]>>
        \o SubSeq(rest, newIndex, Len(rest))

\* onDragEnd, the field with id `active` dropped on the field with id `over`
onDragEnd(active, over) ==
    /\ ui.steps < MaxSteps
    /\ active # over
    /\ \E oldIndex, newIndex \in DOMAIN spec.fields :
        /\ spec.fields[oldIndex].id = active /\ spec.fields[newIndex].id = over
        /\ \A n \in DOMAIN spec.fields :
               /\ spec.fields[n].id = active => oldIndex <= n
               /\ spec.fields[n].id = over => newIndex <= n
        /\ spec' = [spec EXCEPT !.fields = arrayMove(@, oldIndex, newIndex)]
    /\ ui' = handled(ui.status, ui.validatedFingerprint, <<>>)
    /\ UNCHANGED <<validation, files, paths, bundle, zip>>

\* a field as makeField(type, index) makes it, with the given id, key and label
mk(id, type, key, label) ==
    [makeField(id, key, type,
               IF type = "select" THEN Some(<<"Option A", "Option B">>) ELSE Undefined,
               IF type = "repeater"
               THEN Some(<<[makeField("r" \o id, "item_title", "input", Undefined, Undefined)
                               EXCEPT !.label = "Item Title", !.required = TRUE]>>)
               ELSE Undefined)
        EXCEPT !.label = label]

\* addField(type); id is the identifier that Date.now() and Math.random() give
addField(type, id) ==
    /\ ui.steps < MaxSteps
    /\ Len(spec.fields) < MaxNodes
    /\ spec' = [spec EXCEPT !.fields =
                   Append(@, mk(id, type, type \o "_" \o ToString(Len(@) + 1),
                                joinStr([n \in 1..Len(type) |-> toUpperChar(CharAt(type, n))],
                                        "")
                                \o " " \o ToString(Len(@) + 1)))]
    /\ ui' = handled(ui.status, Undefined, <<>>)
    /\ UNCHANGED <<validation, files, paths, bundle, zip>>

\* updateField(next)
updateField(next) ==
    /\ ui.steps < MaxSteps
    /\ spec' = [spec EXCEPT !.fields =
                   [n \in DOMAIN @ |-> IF @[n].id = next.id THEN next ELSE @[n]]]
    /\ ui' = handled(ui.status, Undefined, <<>>)
    /\ UNCHANGED <<validation, files, paths, bundle, zip>>

\* onDelete of a field card: setFields((prev) => prev.filter((f) => f.id !== id))
onDelete(id) ==
    /\ ui.steps < MaxSteps
    /\ spec' = [spec EXCEPT !.fields = SelectSeq(@, LAMBDA f : f.id # id)]
    /\ ui' = handled(ui.status, ui.validatedFingerprint, <<>>)
    /\ UNCHANGED <<validation, files, paths, bundle, zip>>

\* loadDraft; the stored draft is the JSON.stringify(spec) that the effect on spec
\* wrote last
loadDraft ==
    /\ ui.steps < MaxSteps
    /\ LET parsed == JSON_parse(JSON_stringify(spec))
       IN  spec' = BuilderSpec(
                       [vendorName |-> OrElse(parsed.meta.vendorName, "vendor"),
                        extensionKey |-> OrElse(parsed.meta.extensionKey, "n2tsitepackage"),
                        elementName |-> OrElse(parsed.meta.elementName, ""),
                        cTypeKey |-> OrElse(parsed.meta.cTypeKey, ""),
                        iconName |-> OrElse(parsed.meta.iconName, ""),
                        group |-> OrElse(parsed.meta.group, "custom")],
                       parsed.fields, parsed.templateHtml)
    /\ ui' = handled(Some([type |-> "ok", text |-> "Draft loaded."]), Undefined, <<>>)
    /\ UNCHANGED <<validation, files, paths, bundle, zip>>

\* the fields that applyPreset(preset) sets; the ids are those that Date.now() and
\* Math.random() give
presetFields(preset) ==
    CASE preset = "hero" ->
           <<[mk("f_1", "input", "headline", "Headline")
                 EXCEPT !.required = TRUE, !.maxLength = Some(120)],
             [mk("f_2", "textarea", "subline", "Subline") EXCEPT !.maxLength = Some(255)],
             [mk("f_3", "media", "hero_image", "Hero Image") EXCEPT !.maxItems = Some(1)],
             mk("f_4", "link", "primary_link", "Primary Link")>>
      [] preset = "testimonial" ->
           <<[mk("f_1", "repeater", "testimonials_items", "Testimonials Items")
                 EXCEPT !.maxItems = Some(10),
                        !.repeaterFields =
                            Some(<<[mk("f_2", "input", "author_name", "Author Name")
                                       EXCEPT !.required = TRUE],
                                   [mk("f_3", "textarea", "quote_text", "Quote Text")
                                       EXCEPT !.required = TRUE],
                                   [mk("f_4", "select", "rating", "Rating")
                                       EXCEPT !.options = Some(<<"3", "4", "5">>)]>>)],
             mk("f_5", "checkbox", "show_rating", "Show Rating")>>
      [] preset = "cta" ->
           <<[mk("f_1", "input", "cta_title", "CTA Title") EXCEPT !.required = TRUE],
             mk("f_2", "textarea", "cta_text", "CTA Text"),
             [mk("f_3", "link", "cta_link", "CTA Link") EXCEPT !.required = TRUE],
             [mk("f_4", "select", "cta_style", "CTA Style")
                 EXCEPT !.options = Some(<<"primary", "secondary">>)]>>

\* applyPreset(preset)
applyPreset(preset) ==
    /\ ui.steps < MaxSteps
    /\ spec' = BuilderSpec(
                   [vendorName |-> OrElse(spec.meta.vendorName, "vendor"),
                    extensionKey |-> OrElse(spec.meta.extensionKey, "n2tsitepackage"),
                    elementName |-> CASE preset = "hero" -> "Hero Banner"
                                      [] preset = "testimonial" -> "Testimonials"
                                      [] preset = "cta" -> "Call To Action",
                    cTypeKey |-> CASE preset = "hero" -> "hero_banner"
                                   [] preset = "testimonial" -> "testimonials"
                                   [] preset = "cta" -> "call_to_action",
                    iconName |-> CASE preset = "hero" -> "content-hero-banner"
                                   [] preset = "testimonial" -> "content-testimonials"
                                   [] preset = "cta" -> "content-cta",
                    group |-> "marketing"],
                   presetFields(preset), "")
    /\ ui' = handled(Some([type |-> "ok",
                           text |-> "Loaded "
                                    \o joinStr([n \in 1..Len(preset) |->
                                                   toUpperChar(CharAt(preset, n))], "")
                                    \o " preset."]),
                     Undefined, <<>>)
    /\ UNCHANGED <<validation, files, paths, bundle, zip>>

\* the result of runValidation: validateSpec(spec) with one more form error for every
\* metadata value that metaSchema refuses
runValidationResult(s) ==
    LET result == validateSpec(s)
        issues == SelectSeq(<<s.meta.vendorName, s.meta.extensionKey, s.meta.elementName,
                              s.meta.cTypeKey, s.meta.iconName, s.meta.group>>,
                            LAMBDA value : Len(value) < 1)
    IN  [result EXCEPT !.formErrors =
            @ \o [n \in DOMAIN issues |-> "String must contain at least 1 character(s)"]]

\* runValidation
runValidation ==
    /\ ui.steps < MaxSteps /\ Len(ui.io) < MaxEvents
    /\ LET result == runValidationResult(spec)
       IN  /\ validation' = Some(result)
           /\ ui' = IF result.formErrors = <<>> /\ DOMAIN result.fieldErrors = {}
                    THEN handled(Some([type |-> "ok", text |-> "Validation passed."]),
                                 Some(currentFingerprint),
                                 <<Event("runValidation", currentFingerprint, "ok")>>)
                    ELSE handled(Some([type |-> "error",
                                       text |-> "Validation failed. Fix highlighted issues."]),
                                 Undefined,
                                 <<Event("runValidation", currentFingerprint, "error")>>)
    /\ UNCHANGED <<spec, files, paths, bundle, zip>>

\* generateWithAi up to its fetch.  The call closes over the metadata of the render
\* it was started in.  One request is awaited at a time.
generateWithAi ==
    /\ ui.steps < MaxSteps
    /\ ~IsDefined(ui.request)
    /\ ui' = IF Len(spec.fields) = 0
             THEN handled(Some([type |-> "error", text |-> "Add fields before AI generation."]),
                          ui.validatedFingerprint, <<>>)
             ELSE [handled(ui.status, ui.validatedFingerprint, <<>>)
                      EXCEPT !.request = Some(spec.meta)]
    /\ UNCHANGED <<spec, validation, files, paths, bundle, zip>>

\* a response of the assist endpoint: ok and the values of payload.data, each present
\* or not; fieldLabels maps field keys to labels
AiPayload(ok, elementName, cTypeKey, iconName, fieldLabels, templateHtml) ==
    [ok |-> ok, elementName |-> elementName, cTypeKey |-> cTypeKey, iconName |-> iconName,
     fieldLabels |-> fieldLabels, templateHtml |-> templateHtml]

\* Mutant: the assist leaves the validated fingerprint as it is
fingerprintAfterAssist_Kept == ui.validatedFingerprint

\* setValidatedFingerprint(null) of generateWithAi
fingerprintAfterAssist == Undefined

\* generateWithAi from the arrival of the response
generateWithAi_await(payload) ==
    /\ ui.steps < MaxSteps /\ Len(ui.io) < MaxEvents
    /\ IsDefined(ui.request)
    /\ IF ~payload.ok
       THEN /\ ui' = [handled(Some([type |-> "error", text |-> "AI generation failed."]),
                              ui.validatedFingerprint, <<>>)
                         EXCEPT !.request = Undefined]
            /\ spec' = spec
       ELSE LET meta == ValueOf(ui.request)
                ai == payload
                given(o) == IsDefined(o) /\ ValueOf(o) # ""
                nextMeta ==
                    IF given(ai.elementName) \/ given(ai.cTypeKey) \/ given(ai.iconName)
                    THEN [vendorName |-> OrElse(meta.vendorName, "vendor"),
                          extensionKey |-> OrElse(meta.extensionKey, "n2tsitepackage"),
                          elementName |-> IF given(ai.elementName) THEN ValueOf(ai.elementName)
                                          ELSE meta.elementName,
                          cTypeKey |-> IF given(ai.cTypeKey) THEN slugify(ValueOf(ai.cTypeKey))
                                       ELSE meta.cTypeKey,
                          iconName |-> IF given(ai.iconName) THEN ValueOf(ai.iconName)
                                       ELSE meta.iconName,
                          group |-> OrElse(meta.group, "custom")]
                    ELSE spec.meta
                labels == IF IsDefined(ai.fieldLabels) THEN ValueOf(ai.fieldLabels) ELSE <<>>
                nextFields ==
                    [n \in DOMAIN spec.fields |->
                        IF \E l \in DOMAIN labels :
                               labels[l][1] = spec.fields[n].key /\ labels[l][2] # ""
                        THEN [spec.fields[n] EXCEPT !.label =
                                 labels[CHOOSE l \in DOMAIN labels :
                                            labels[l][1] = spec.fields[n].key][2]]
                        ELSE spec.fields[n]]
                hasTemplate == IsDefined(ai.templateHtml) /\ trim(ValueOf(ai.templateHtml)) # ""
                next == BuilderSpec(nextMeta, nextFields,
                                    IF hasTemplate THEN ValueOf(ai.templateHtml) ELSE "")
            IN  /\ spec' = next
                /\ ui' = [handled(IF hasTemplate
                                  THEN Some([type |-> "ok",
                                             text |-> "Generated from AI successfully."])
                                  ELSE Some([type |-> "error",
                                             text |-> "AI ran but returned no template output."]),
                                  fingerprintAfterAssist,
                                  <<Event("generateWithAi", JSON_stringify(next), "ok")>>)
                             EXCEPT !.request = Undefined]
    /\ UNCHANGED <<validation, files, paths, bundle, zip>>

\* doExportZip; `now` holds the values that new Date() gives createZipFromSpecs
doExportZip(now) ==
    /\ ui.steps < MaxSteps /\ Len(ui.io) < MaxEvents
    /\ IF ~isExportUnlocked
       THEN /\ ui' = handled(Some([type |-> "error",
                                   text |-> "Run validation successfully first to unlock export."]),
                             ui.validatedFingerprint, <<>>)
            /\ zip' = zip
       ELSE IF trim(spec.templateHtml) = ""
       THEN /\ ui' = handled(Some([type |-> "error",
                                   text |-> "No template output available. Generate with AI before export."]),
                             ui.validatedFingerprint, <<>>)
            /\ zip' = zip
       ELSE /\ zip' = Some(createZipFromSpecs(<<spec>>, now))
            /\ ui' = handled(Some([type |-> "ok", text |-> "ZIP exported successfully."]),
                             ui.validatedFingerprint,
                             <<Event("doExportZip", currentFingerprint, "ok")>>)
    /\ UNCHANGED <<spec, validation, files, paths, bundle>>

\* the drafts the page starts from: the one of a fresh page, and one with two fields
\* added and a template typed
PageInputs ==
    {BuilderSpec(DefaultMeta, <<>>, ""),
     BuilderSpec(DefaultMeta,
                 <<mk("f_1", "input", "input_1", "INPUT 1"),
                   mk("f_2", "textarea", "textarea_2", "TEXTAREA 2")>>,
                 "<p>{data.input_1}</p>")}

\* what the user types into the metadata form: <<key, value>>
MetaEdits == {<<"group", "marketing">>, <<"group", "custom">>, <<"vendorName", "">>}

\* the spec files the user picks for import
PageDocuments ==
    {JSON_stringify(BuilderSpec(m, <<mk("f_1", "input", "title", "Title")>>, "<p>{data.title}</p>")) :
        m \in {[DefaultMeta EXCEPT !.cTypeKey = "hero"], [DefaultMeta EXCEPT !.iconName = ""]}}

\* the responses of the assist endpoint
AiPayloads ==
    {AiPayload(FALSE, Undefined, Undefined, Undefined, Undefined, Undefined),
     AiPayload(TRUE, Undefined, Undefined, Undefined, Undefined, Some("<p>{data.input_1}</p>")),
     AiPayload(TRUE, Some("Hero Banner"), Some("Hero Banner"), Undefined, Undefined,
               Some("<p>{data.input_1}</p>")),
     AiPayload(TRUE, Undefined, Undefined, Some("content-hero"),
               Some(<<<<"input_1", "Headline">>>>), Some(" "))}

InitPage ==
    /\ spec \in PageInputs
    /\ validation = Some([formErrors |-> <<>>, fieldErrors |-> <<>>])
    /\ files = Undefined
    /\ paths = Undefined
    /\ bundle = <<>>
    /\ zip = Undefined
    /\ ui = InitialUi

NextPage ==
    \/ \E edit \in MetaEdits : setMetaValue(edit[1], edit[2])
    \/ \E value \in {"", "<p>{data.input_1}</p>"} : setTemplateHtml(value)
    \/ \E active, over \in {"f_1", "f_2"} : onDragEnd(active, over)
    \/ \E type \in {"input", "repeater"} : addField(type, "f_9")
    \/ \E n \in DOMAIN spec.fields, label \in {"Headline", "INPUT 1"} :
           spec.fields[n].id = "f_1" /\ updateField([spec.fields[n] EXCEPT !.label = label])
    \/ \E id \in {"f_1", "f_2"} : onDelete(id)
    \/ \E preset \in {"hero", "testimonial", "cta"} : applyPreset(preset)
    \/ loadDraft
    \/ \E file \in PageDocuments : importSpec(file)
    \/ downloadSpec
    \/ runValidation
    \/ generateWithAi
    \/ \E payload \in AiPayloads : generateWithAi_await(payload)
    \/ \E now \in Readings(clockReads(<<spec>>)) : doExportZip(now)

SpecPage == InitPage /\ [][NextPage]_vars

(***************************************************************************)
(* The builder page: the bundle list                                       *)
(***************************************************************************)
\* addCurrentToBundle
addCurrentToBundle ==
    /\ ui.steps < MaxSteps /\ Len(ui.io) < MaxEvents
    /\ LET result == runValidationResult(spec)
           snapshot == JSON_parse(JSON_stringify(spec))
           found == {n \in DOMAIN bundle : bundle[n].meta.cTypeKey = snapshot.meta.cTypeKey}
           idx == CHOOSE n \in found : \A m \in found : n <= m
       IN  /\ validation' = Some(result)
           /\ IF result.formErrors # <<>> \/ DOMAIN result.fieldErrors # {}
              THEN /\ ui' = handled(Some([type |-> "error",
                                          text |-> "Validation failed. Fix highlighted issues."]),
                                    Undefined,
                                    <<Event("runValidation", currentFingerprint, "error")>>)
                   /\ bundle' = bundle
              ELSE IF trim(spec.templateHtml) = ""
              THEN /\ ui' = handled(Some([type |-> "error",
                                          text |-> "Cannot bundle without AI template output."]),
                                    Some(currentFingerprint),
                                    <<Event("runValidation", currentFingerprint, "ok")>>)
                   /\ bundle' = bundle
              ELSE /\ bundle' = IF found = {} THEN Append(bundle, snapshot)
                                ELSE [bundle EXCEPT ![idx] = snapshot]
                   /\ ui' = handled(Some([type |-> "ok",
                                          text |-> "Added " \o snapshot.meta.cTypeKey
                                                   \o " to bundle."]),
                                    Some(currentFingerprint),
                                    <<Event("runValidation", currentFingerprint, "ok")>>)
    /\ UNCHANGED <<spec, files, paths, zip>>

\* loadBundleElement(entry)
loadBundleElement(entry) ==
    /\ ui.steps < MaxSteps
    /\ spec' = BuilderSpec(entry.meta, entry.fields, entry.templateHtml)
    /\ ui' = handled(Some([type |-> "ok",
                           text |-> "Loaded " \o entry.meta.cTypeKey \o " from bundle."]),
                     Undefined, <<>>)
    /\ UNCHANGED <<validation, files, paths, bundle, zip>>

\* removeFromBundle(cTypeKey)
removeFromBundle(cTypeKey) ==
    /\ ui.steps < MaxSteps
    /\ bundle' = SelectSeq(bundle, LAMBDA item : item.meta.cTypeKey # cTypeKey)
    /\ ui' = handled(ui.status, ui.validatedFingerprint, <<>>)
    /\ UNCHANGED <<spec, validation, files, paths, zip>>

\* the status line after a bundle export
BundleExportedMsg(n) == "Bundle ZIP exported with " \o ToString(n) \o " elements."

\* exportBundleZip; `now` holds the values that new Date() gives createZipFromSpecs
exportBundleZip(now) ==
    /\ ui.steps < MaxSteps
    /\ IF Len(bundle) = 0
       THEN /\ ui' = handled(Some([type |-> "error",
                                   text |-> "Bundle is empty. Add at least one content element."]),
                             ui.validatedFingerprint, <<>>)
            /\ zip' = zip
       ELSE IF \E n \in DOMAIN bundle : trim(bundle[n].templateHtml) = ""
       THEN /\ ui' = handled(Some([type |-> "error",
                                   text |-> "Bundle contains element(s) without template output."]),
                             ui.validatedFingerprint, <<>>)
            /\ zip' = zip
       ELSE LET outcome == createZipFromSpecs(bundle, now)
            IN  /\ zip' = Some(outcome)
                /\ ui' = handled(IF IsDefined(outcome.error)
                                 THEN Some([type |-> "error", text |-> ValueOf(outcome.error)])
                                 ELSE Some([type |-> "ok",
                                            text |-> BundleExportedMsg(Len(bundle))]),
                                 ui.validatedFingerprint, <<>>)
    /\ UNCHANGED <<spec, validation, files, paths, bundle>>

\* the drafts behind the spec files of the shelf: elements of one package
ShelfInputs ==
    {BuilderSpec([DefaultMeta EXCEPT !.cTypeKey = c],
                 <<mk("f_1", "input", "title", "Title")>>, t) :
        c \in {"hero", "hero_", "teaser"}, t \in {"", "<p>{data.title}</p>"}}

InitShelf ==
    /\ spec \in ShelfInputs
    /\ validation = Some([formErrors |-> <<>>, fieldErrors |-> <<>>])
    /\ files = Undefined
    /\ paths = Undefined
    /\ bundle = <<>>
    /\ zip = Undefined
    /\ ui = InitialUi

NextShelf ==
    \/ \E s \in ShelfInputs : importSpec(JSON_stringify(s))
    \/ addCurrentToBundle
    \/ \E n \in DOMAIN bundle : loadBundleElement(bundle[n])
    \/ \E n \in DOMAIN bundle : removeFromBundle(bundle[n].meta.cTypeKey)
    \/ \E now \in Readings(clockReads(bundle)) : exportBundleZip(now)

SpecShelf == InitShelf /\ [][NextShelf]_vars

(***************************************************************************)
(* Properties of the validator                                             *)
(***************************************************************************)
Validated == IsDefined(validation)
FormErrors == ValueOf(validation).formErrors
FieldErrors == ValueOf(validation).fieldErrors
Fields == spec.fields

\* the field at position i is the only top-level field with its id
OwnId(i) == \A i2 \in DOMAIN Fields : i2 # i => Fields[i2].id # Fields[i].id

\* the messages recorded under the id of the field at position i
ErrorsOf(i) == IF Fields[i].id \in DOMAIN FieldErrors THEN FieldErrors[Fields[i].id] ELSE <<>>

Count(seq, m) == Cardinality({n \in DOMAIN seq : seq[n] = m})

\* the children validate looks at: those of a repeater
Subs(i) == IF Fields[i].type = "repeater" THEN SubFieldsOf(Fields[i]) ELSE <<>>

SpecKeys ==
    {Fields[i].key : i \in DOMAIN Fields}
    \cup UNION {{Subs(i)[j].key : j \in DOMAIN Subs(i)} : i \in DOMAIN Fields}

\* positions of fs that carry key k after an earlier position carrying k
LaterOccurrences(fs, k) ==
    {n \in DOMAIN fs : fs[n].key = k /\ \E m \in 1..(n - 1) : fs[m].key = k}

BadGrammar(f) == ~KEY_REGEX(f.key)
IsReserved(f) == f.key \in Range(RESERVED_KEYS)

\* C2: within one key scope (the top-level fields, the children of one repeater) the
\* first field carrying a key gets no duplicate-key message and every later field
\* carrying it gets exactly one: the "must be unique" messages recorded for a field
\* are one per later occurrence, of its own key among the top-level fields and of
\* each child key among its children.
C2_DuplicateFlagsLaterOccurrences ==
    Validated =>
        \A i \in DOMAIN Fields : OwnId(i) =>
            \A k \in SpecKeys :
                Count(ErrorsOf(i), UniqueMsg(k)) =
                    (IF i \in LaterOccurrences(Fields, k) THEN 1 ELSE 0)
                    + Cardinality(LaterOccurrences(Subs(i), k))

C2_Witness ==
    /\ Validated
    /\ \E i, j, l \in DOMAIN Fields :
        /\ i < j /\ j < l
        /\ Fields[i].key = Fields[j].key /\ Fields[j].key = Fields[l].key
        /\ Fields[i].id \notin DOMAIN FieldErrors
        /\ Count(ErrorsOf(j), UniqueMsg(Fields[j].key)) = 1
        /\ Count(ErrorsOf(l), UniqueMsg(Fields[l].key)) = 1

\* the spec of the uniqueness example: two top-level fields, both with key "title"
TwoTitleFields ==
    /\ Len(Fields) = 2
    /\ Fields[1].key = "title" /\ Fields[2].key = "title"
    /\ Fields[1].id # Fields[2].id
    /\ Fields[1].type = "input" /\ Fields[2].type = "input"

\* how often message m occurs in the whole field-error map
TotalCount(m) ==
    Cardinality(UNION {{<<id, n>> : n \in {x \in DOMAIN FieldErrors[id] : FieldErrors[id][x] = m}} :
                          id \in DOMAIN FieldErrors})

\* C3 as stated: two duplicate-key messages, and both field ids in the field-error map.
C3_Original ==
    (Validated /\ TwoTitleFields) =>
        /\ TotalCount(UniqueMsg("title")) = 2
        /\ Fields[1].id \in DOMAIN FieldErrors
        /\ Fields[2].id \in DOMAIN FieldErrors

\* C3 amended: for two top-level fields sharing the key "title" validate reports one
\* duplicate-key message, recorded for the second field; the field-error map has an
\* entry for the second field's id and none for the first.
C3_OneMessageOnSecondField ==
    (Validated /\ TwoTitleFields) =>
        /\ TotalCount(UniqueMsg("title")) = 1
        /\ FieldErrors[Fields[2].id] = <<UniqueMsg("title")>>
        /\ DOMAIN FieldErrors = {Fields[2].id}

C3_Witness == Validated /\ TwoTitleFields

\* C4 as stated: a field with key "CType" gets the reserved-key message and no
\* key-grammar message.
C4_Original ==
    Validated =>
        \A i \in DOMAIN Fields :
            (OwnId(i) /\ Fields[i].key = "CType" /\ Fields[i].type # "repeater") =>
                /\ Count(ErrorsOf(i), ReservedMsg("CType")) = 1
                /\ Count(ErrorsOf(i), GrammarMsg) = 0

\* C4 amended: a field with key "CType" gets the reserved-key message and also the
\* key-grammar message: the key starts with an upper-case letter, which the key
\* grammar ^[a-z][a-z0-9_]*$ rejects.
C4_CTypeReservedAndBadGrammar ==
    Validated =>
        \A i \in DOMAIN Fields :
            (OwnId(i) /\ Fields[i].key = "CType" /\ Fields[i].type # "repeater") =>
                /\ Count(ErrorsOf(i), ReservedMsg("CType")) = 1
                /\ Count(ErrorsOf(i), GrammarMsg) = 1

C4_Witness ==
    /\ Validated
    /\ \E i \in DOMAIN Fields :
        /\ OwnId(i) /\ Fields[i].key = "CType" /\ Fields[i].type # "repeater"
        /\ i \notin LaterOccurrences(Fields, "CType")
        /\ ErrorsOf(i) = <<GrammarMsg, ReservedMsg("CType")>>

\* C5: the three key rules are independent.  The grammar and reserved messages
\* recorded for a field are one per field (itself or a child) whose key breaks that
\* rule, whatever the other rules say of the same key; a key that is bad grammar,
\* reserved and already seen gets the three messages.
C5_KeyRulesIndependent ==
    Validated =>
        \A i \in DOMAIN Fields : OwnId(i) =>
            /\ Count(ErrorsOf(i), GrammarMsg) =
                   (IF BadGrammar(Fields[i]) THEN 1 ELSE 0)
                   + Cardinality({j \in DOMAIN Subs(i) : BadGrammar(Subs(i)[j])})
            /\ \A k \in SpecKeys :
                   Count(ErrorsOf(i), ReservedMsg(k)) =
                       (IF Fields[i].key = k /\ IsReserved(Fields[i]) THEN 1 ELSE 0)
                       + Cardinality({j \in DOMAIN Subs(i) :
                                         Subs(i)[j].key = k /\ IsReserved(Subs(i)[j])})
            /\ (BadGrammar(Fields[i]) /\ IsReserved(Fields[i])
                    /\ i \in LaterOccurrences(Fields, Fields[i].key)) =>
                   SubSeq(ErrorsOf(i), 1, 3) =
                       <<GrammarMsg, ReservedMsg(Fields[i].key), UniqueMsg(Fields[i].key)>>

C5_Witness ==
    /\ Validated
    /\ \E i \in DOMAIN Fields :
        /\ OwnId(i)
        /\ BadGrammar(Fields[i]) /\ IsReserved(Fields[i])
        /\ i \in LaterOccurrences(Fields, Fields[i].key)
        /\ ErrorsOf(i) =
               <<GrammarMsg, ReservedMsg(Fields[i].key), UniqueMsg(Fields[i].key)>>

HasNestedRepeater(i) == \E j \in DOMAIN Subs(i) : Subs(i)[j].type = "repeater"

\* the child at position j of field i breaks a key rule or the select-option rule
SubFieldViolates(i, j) ==
    LET sub == Subs(i)[j]
    IN  \/ BadGrammar(sub)
        \/ IsReserved(sub)
        \/ j \in LaterOccurrences(Subs(i), sub.key)
        \/ sub.type = "select" /\ NoOptions(sub)

\* C6: a repeater with a child of repeater kind gets the nesting-depth message, and
\* the key rules and the select-option rule are applied to every child all the same:
\* what follows the nesting-depth message is, child by child in order, the messages
\* of that child's violations.
C6_NestedRepeaterKeepsSiblingChecks ==
    Validated =>
        \A i \in DOMAIN Fields :
            (OwnId(i) /\ Fields[i].type = "repeater" /\ HasNestedRepeater(i)) =>
                /\ Count(ErrorsOf(i), NestedMsg) = 1
                /\ \A j \in DOMAIN Subs(i) :
                    LET sub == Subs(i)[j]
                    IN  /\ BadGrammar(sub) => GrammarMsg \in Range(ErrorsOf(i))
                        /\ IsReserved(sub) => ReservedMsg(sub.key) \in Range(ErrorsOf(i))
                        /\ j \in LaterOccurrences(Subs(i), sub.key) =>
                               UniqueMsg(sub.key) \in Range(ErrorsOf(i))
                        /\ Count(ErrorsOf(i), SubSelectMsg(sub.key)) =
                               Cardinality({l \in DOMAIN Subs(i) :
                                   /\ Subs(i)[l].key = sub.key
                                   /\ Subs(i)[l].type = "select" /\ NoOptions(Subs(i)[l])})

C6_Witness ==
    /\ Validated
    /\ \E i \in DOMAIN Fields :
        /\ OwnId(i) /\ Fields[i].type = "repeater"
        /\ KEY_REGEX(Fields[i].key) /\ ~IsReserved(Fields[i])
        /\ \E j, l \in DOMAIN Subs(i) :
            /\ j < l
            /\ Subs(i)[j].type = "repeater"
            /\ Subs(i)[l].type = "select" /\ NoOptions(Subs(i)[l])
            /\ Subs(i)[l].key = "CType"
            /\ NestedMsg \in Range(ErrorsOf(i))
            /\ SubSelectMsg("CType") \in Range(ErrorsOf(i))
            /\ ReservedMsg("CType") \in Range(ErrorsOf(i))

\* C7: key uniqueness is scoped.  A repeater's children are checked against a key
\* set of their own: a key carried by two children of one repeater is flagged, a
\* child key that only equals a top-level key or a key of another repeater's child
\* is not.
C7_UniquenessScopedPerRepeater ==
    Validated =>
        \A i \in DOMAIN Fields : (OwnId(i) /\ Fields[i].type = "repeater") =>
            \A j \in DOMAIN Subs(i) :
                LET k == Subs(i)[j].key
                IN  IF LaterOccurrences(Subs(i), k) # {}
                    THEN UniqueMsg(k) \in Range(ErrorsOf(i))
                    ELSE (UniqueMsg(k) \in Range(ErrorsOf(i))) <=>
                             (Fields[i].key = k /\ i \in LaterOccurrences(Fields, k))

C7_Witness ==
    /\ Validated
    /\ \E i, i2 \in DOMAIN Fields :
        /\ i < i2 /\ OwnId(i) /\ OwnId(i2)
        /\ Fields[i].type = "repeater" /\ Fields[i2].type = "repeater"
        /\ Fields[i].key = "title" /\ Fields[i2].key = "uid"
        /\ \E j \in DOMAIN Subs(i), j2 \in DOMAIN Subs(i2) :
            /\ Subs(i)[j].key = "title" /\ Subs(i2)[j2].key = "title"
        /\ Fields[i].id \notin DOMAIN FieldErrors
        /\ ErrorsOf(i2) = <<ReservedMsg("uid")>>

\* the field at position i, or one of its children, breaks a rule of validate
FieldViolates(i) ==
    \/ BadGrammar(Fields[i])
    \/ IsReserved(Fields[i])
    \/ i \in LaterOccurrences(Fields, Fields[i].key)
    \/ Fields[i].type = "select" /\ NoOptions(Fields[i])
    \/ /\ Fields[i].type = "repeater"
       /\ \/ Len(Subs(i)) = 0
          \/ HasNestedRepeater(i)
          \/ \E j \in DOMAIN Subs(i) : SubFieldViolates(i, j)

\* C8: a top-level field id is a key of the field-error map if and only if a field
\* with that id (or one of its repeater children) breaks a rule; no id is mapped to
\* an empty list, and the map has no other keys.
C8_ErrorMapHoldsExactlyViolators ==
    Validated =>
        /\ DOMAIN FieldErrors = {Fields[i].id : i \in {n \in DOMAIN Fields : FieldViolates(n)}}
        /\ \A id \in DOMAIN FieldErrors : Len(FieldErrors[id]) > 0

C8_Witness ==
    /\ Validated
    /\ \E i, i2 \in DOMAIN Fields :
        /\ OwnId(i) /\ OwnId(i2)
        /\ FieldViolates(i) /\ ~FieldViolates(i2)
        /\ Fields[i].id \in DOMAIN FieldErrors
        /\ Fields[i2].id \notin DOMAIN FieldErrors

(***************************************************************************)
(* Properties of the assembler                                             *)
(***************************************************************************)
\* C1: for every spec, valid or not and with any number of repeater fields, the set
\* of paths listGeneratedFilePaths returns is the key set of the mapping
\* buildGeneratedFiles returns.
C1_ListedPathsAreAssembledKeys ==
    (IsDefined(files) /\ IsDefined(paths)) =>
        Range(ValueOf(paths)) = DOMAIN ValueOf(files)

C1_Witness ==
    /\ IsDefined(files) /\ IsDefined(paths)
    /\ Len(repeaterFields(spec)) >= 2
    /\ DOMAIN validateSpec(spec).fieldErrors # {}
    /\ Cardinality(DOMAIN ValueOf(files)) = 24
    /\ Range(ValueOf(paths)) = DOMAIN ValueOf(files)

(***************************************************************************)
(* Properties of the bundle packager                                       *)
(***************************************************************************)
Merged == IsDefined(zip)
Threw == IsDefined(ValueOf(zip).error)
Writes == ValueOf(zip).writes
Blob == ValueOf(zip).blob

ExtOf(s) == toTypo3Identifier(s.meta.extensionKey)
VendorOf(s) == toTypo3Identifier(OrElse(s.meta.vendorName, "vendor"))

\* two specs of the bundle name different extension keys or vendor names as typed
DisagreeAsTyped ==
    \E i, j \in DOMAIN bundle :
        \/ bundle[i].meta.extensionKey # bundle[j].meta.extensionKey
        \/ bundle[i].meta.vendorName # bundle[j].meta.vendorName

\* two specs of the bundle name different hosting packages once their extension
\* key and vendor name are sanitized
DisagreeSanitized ==
    \E i, j \in DOMAIN bundle :
        ExtOf(bundle[i]) # ExtOf(bundle[j]) \/ VendorOf(bundle[i]) # VendorOf(bundle[j])

\* C9 as stated: createZipFromSpecs throws, having written nothing, exactly when two
\* specs of the bundle differ in extension key or vendor name.
C9_Original ==
    Merged =>
        /\ Threw <=> DisagreeAsTyped
        /\ Threw => (Writes = <<>> /\ ~IsDefined(Blob))
        /\ ~Threw => IsDefined(Blob)

\* C9: createZipFromSpecs throws, having written nothing, exactly when two specs of
\* the bundle differ in sanitized extension key or in sanitized vendor name (an
\* empty vendor name counting as "vendor"); otherwise it returns the archive.
C9_MismatchOnSanitizedIdentity ==
    Merged =>
        /\ Threw <=> DisagreeSanitized
        /\ Threw => (Writes = <<>> /\ ~IsDefined(Blob) /\ ValueOf(zip).error = Some(MismatchMsg))
        /\ ~Threw => IsDefined(Blob)

C9_Witness ==
    /\ Merged /\ Threw
    /\ Len(bundle) = 3
    /\ ExtOf(bundle[1]) = ExtOf(bundle[2]) /\ VendorOf(bundle[1]) = VendorOf(bundle[2])
    /\ bundle[1].meta.extensionKey # bundle[2].meta.extensionKey
    /\ VendorOf(bundle[3]) # VendorOf(bundle[1])
    /\ Writes = <<>> /\ ~IsDefined(Blob)

TypeKey(k) == bundle[k].meta.cTypeKey

\* the positions of the bundle whose type key, as the generated package spells it,
\* does not come again later
LastOccurrences ==
    {k \in DOMAIN bundle :
        \A l \in DOMAIN bundle :
            l > k => toTypo3Identifier(TypeKey(l)) # toTypo3Identifier(TypeKey(k))}

\* the documents the packager writes once per element
PerElementDocs ==
    {"tt_content override", "element tsconfig", "element typoscript", "template",
     "preview template", "locallang.xlf", "icon.svg", "child table TCA"}

\* the per-element documents of the spec at position k
ElementDocsOf(k) ==
    LET s == bundle[k]
    IN  {generateTcaOverridePhp(s), generatePageTsConfig(s), generateTypoScriptSetup(s),
         resolveTemplateHtml(s), generateBackendPreviewTemplate(s),
         generateInitialIconSvg(s)}
        \cup {generateLocallangXlf(s, t) : t \in 1..MaxClock}
        \cup {generateRepeaterTableTcaPhp(s, f) : f \in Range(repeaterFields(s))}

ColumnLinesOf(k) == Range(generateExtTablesSql(bundle[k]).ttContentColumns)
ColumnNamesOf(k) == {toTypo3Identifier(f.key) : f \in Range(bundle[k].fields)}
ChildTablesOf(k) == Range(generateExtTablesSql(bundle[k]).repeaterTablesSql)

MergedSql == ValueOf(Blob)["ext_tables.sql"]

\* C10: of the specs of a bundle with the same type key only the last counts: its
\* schema override and translation catalog are the ones of the archive, every
\* per-element document written is one of a last occurrence, and the columns and
\* child tables of the merged storage DDL are those of the last occurrences.
C10_LastOccurrenceWins ==
    (Merged /\ ~Threw /\ bundle # <<>>) =>
        /\ \A k \in LastOccurrences :
            LET cType == toTypo3Identifier(TypeKey(k))
            IN  /\ ValueOf(Blob)["Configuration/TCA/Overrides/tt_content_" \o cType \o ".php"]
                       = generateTcaOverridePhp(bundle[k])
                /\ ValueOf(Blob)["Resources/Private/Language/locallang_" \o cType \o ".xlf"]
                       \in {generateLocallangXlf(bundle[k], t) : t \in 1..MaxClock}
        /\ \A n \in DOMAIN Writes :
            Writes[n].content.doc \in PerElementDocs =>
                \E k \in LastOccurrences : Writes[n].content \in ElementDocsOf(k)
        /\ Range(MergedSql.ttContentColumns) \subseteq UNION {ColumnLinesOf(k) : k \in LastOccurrences}
        /\ {beforeWhitespace(trim(line)) : line \in Range(MergedSql.ttContentColumns)}
               = UNION {ColumnNamesOf(k) : k \in LastOccurrences}
        /\ Range(MergedSql.repeaterTablesSql) = UNION {ChildTablesOf(k) : k \in LastOccurrences}

C10_Witness ==
    /\ Merged /\ ~Threw
    /\ Len(bundle) = 3
    /\ TypeKey(1) = TypeKey(3) /\ TypeKey(2) # TypeKey(1)
    /\ toTypo3Identifier(TypeKey(2)) # toTypo3Identifier(TypeKey(1))
    /\ Len(bundle[1].fields) = 2 /\ Len(bundle[2].fields) = 1 /\ Len(bundle[3].fields) = 1
    /\ ValueOf(Blob)["Configuration/TCA/Overrides/tt_content_"
                     \o toTypo3Identifier(TypeKey(1)) \o ".php"]
           = generateTcaOverridePhp(bundle[3])
    /\ "items" \notin {beforeWhitespace(trim(line)) : line \in Range(MergedSql.ttContentColumns)}
    /\ MergedSql.repeaterTablesSql = <<>>

\* the first position of the bundle with the type key of position k
FirstPosition(k) ==
    CHOOSE l \in DOMAIN bundle :
        /\ toTypo3Identifier(TypeKey(l)) = toTypo3Identifier(TypeKey(k))
        /\ \A l2 \in DOMAIN bundle :
               toTypo3Identifier(TypeKey(l2)) = toTypo3Identifier(TypeKey(k)) => l <= l2

\* dedup order: the last occurrences, each at the place its type key first came
DedupOrder ==
    LET n == Cardinality(LastOccurrences)
    IN  CHOOSE order \in [1..n -> LastOccurrences] :
            \A a, b \in 1..n : a < b => FirstPosition(order[a]) < FirstPosition(order[b])

ColumnName(line) == beforeWhitespace(trim(line))

\* the definition the spec at position k gives the base-table column `name`
ColumnLineOf(k, name) ==
    LET lines == generateExtTablesSql(bundle[k]).ttContentColumns
    IN  lines[CHOOSE i \in DOMAIN lines :
                  /\ ColumnName(lines[i]) = name
                  /\ \A j \in DOMAIN lines : ColumnName(lines[j]) = name => i <= j]

\* C11: the base-table statement of the merged storage DDL holds the columns of all
\* deduplicated specs, each column name once, with the definition of the first spec
\* in dedup order that has the column.
C11_ColumnsUnionedFirstSeenWins ==
    (Merged /\ ~Threw /\ bundle # <<>>) =>
        LET columns == MergedSql.ttContentColumns
        IN  /\ {ColumnName(columns[i]) : i \in DOMAIN columns}
                   = UNION {ColumnNamesOf(k) : k \in LastOccurrences}
            /\ \A i, j \in DOMAIN columns :
                   i # j => ColumnName(columns[i]) # ColumnName(columns[j])
            /\ \A i \in DOMAIN columns :
                   \E a \in DOMAIN DedupOrder :
                       /\ ColumnName(columns[i]) \in ColumnNamesOf(DedupOrder[a])
                       /\ \A b \in 1..(a - 1) :
                              ColumnName(columns[i]) \notin ColumnNamesOf(DedupOrder[b])
                       /\ columns[i] = ColumnLineOf(DedupOrder[a], ColumnName(columns[i]))

C11_Witness ==
    /\ Merged /\ ~Threw
    /\ Len(bundle) = 3 /\ Len(DedupOrder) = 2
    /\ DedupOrder[1] = 3
    /\ "title" \in ColumnNamesOf(3) /\ "title" \in ColumnNamesOf(2)
    /\ ColumnLineOf(3, "title") # ColumnLineOf(2, "title")
    /\ Len(MergedSql.ttContentColumns) = 2
    /\ ColumnLineOf(3, "title") \in Range(MergedSql.ttContentColumns)

\* the lines of a text: the line feeds end them, and what follows the last line feed
\* is a line if it is not empty
LinesOf(text) ==
    LET breaks == {i \in 1..Len(text) : CharAt(text, i) = "\n"}
        break(a) == CHOOSE i \in breaks : Cardinality({j \in breaks : j < i}) = a - 1
        n == Cardinality(breaks)
        start(a) == IF a = 1 THEN 1 ELSE break(a - 1) + 1
        rest == SubSeq(text, start(n + 1), Len(text))
    IN  [a \in 1..n |-> SubSeq(text, start(a), break(a) - 1)]
        \o (IF rest = "" THEN <<>> ELSE <<rest>>)

PageTsConfigImports == LinesOf(ValueOf(Blob)["Configuration/page.tsconfig"].text)
TypoScriptSetupImports ==
    LinesOf(ValueOf(Blob)["Configuration/TypoScript/setup.typoscript"].text)

IsValid(s) ==
    validateSpec(s).formErrors = <<>> /\ DOMAIN validateSpec(s).fieldErrors = {}

\* the repeater fields of the bundle: <<position of the spec, position of the field
\* among the repeater fields of the spec>>
BundleRepeaters ==
    {<<k, i>> : k \in DOMAIN bundle, i \in 1..MaxNodes} \cap
    {r \in (DOMAIN bundle) \X (1..MaxNodes) : r[2] <= Len(repeaterFields(bundle[r[1]]))}

ChildTableOf(r) ==
    repeaterTableName(ExtOf(bundle[r[1]]), toTypo3Identifier(TypeKey(r[1])),
                      repeaterFields(bundle[r[1]])[r[2]].key)

ChildTableDocs ==
    {p \in DOMAIN ValueOf(Blob) : ValueOf(Blob)[p].doc = "child table TCA"}

\* C13: in a bundle of validated specs of one package whose type keys are pairwise
\* different, the child tables of the repeater fields have pairwise different names,
\* the merged storage DDL creates no table twice, and there is one child-table
\* schema document per repeater field.
C13_ChildTablesPairwiseDistinct ==
    (/\ Merged /\ ~Threw /\ bundle # <<>>
     /\ \A k \in DOMAIN bundle : IsValid(bundle[k])
     /\ \A k, l \in DOMAIN bundle : k # l => TypeKey(k) # TypeKey(l)) =>
        /\ \A r, q \in BundleRepeaters : r # q => ChildTableOf(r) # ChildTableOf(q)
        /\ \A i, j \in DOMAIN MergedSql.repeaterTablesSql :
               i # j => MergedSql.repeaterTablesSql[i].table
                            # MergedSql.repeaterTablesSql[j].table
        /\ Cardinality(ChildTableDocs) = Cardinality(BundleRepeaters)

\* C28: in a bundle of validated specs of one package whose type keys are pairwise
\* different (as the merger compares them, sanitized), the template names derived from the type keys are pairwise different,
\* and no rendering template, preview template, per-element TypoScript or per-element
\* TSconfig file is written twice at one path.
C28_TemplateNamesPairwiseDistinct ==
    (/\ Merged /\ ~Threw /\ bundle # <<>>
     /\ \A k \in DOMAIN bundle : IsValid(bundle[k])
     /\ \A k, l \in DOMAIN bundle :
            k # l => toTypo3Identifier(TypeKey(k)) # toTypo3Identifier(TypeKey(l))) =>
        /\ \A k, l \in DOMAIN bundle :
               k # l => toTemplateName(toTypo3Identifier(TypeKey(k)))
                            # toTemplateName(toTypo3Identifier(TypeKey(l)))
        /\ \A i, j \in DOMAIN Writes :
               (/\ i # j
                /\ \/ startsWith(Writes[i].path, "Resources/Private/Templates/")
                   \/ startsWith(Writes[i].path,
                                 "Configuration/TypoScript/ContentElement/Element/")
                   \/ startsWith(Writes[i].path,
                                 "Configuration/TsConfig/Page/ContentElement/Element/"))
               => Writes[i].path # Writes[j].path

(***************************************************************************)
(* Properties of the assembled file set                                    *)
(***************************************************************************)
Assembled == IsDefined(files)
FileSet == ValueOf(files)
ManifestPath == spec.meta.extensionKey \o "/manifest.json"
XlfPath ==
    spec.meta.extensionKey \o "/Resources/Private/Language/locallang_"
    \o toTypo3Identifier(spec.meta.cTypeKey) \o ".xlf"
TemplatePath ==
    spec.meta.extensionKey \o "/Resources/Private/Templates/ContentElements/"
    \o toTemplateName(toTypo3Identifier(spec.meta.cTypeKey)) \o ".html"
SqlPath == spec.meta.extensionKey \o "/ext_tables.sql"

\* the spec s with other ids on its fields and on their children, and nothing else
\* changed
WithOtherIds(s) ==
    [s EXCEPT !.fields =
        [i \in DOMAIN s.fields |->
            [s.fields[i] EXCEPT
                !.id = "other_" \o @,
                !.repeaterFields =
                    IF IsDefined(@)
                    THEN Some([j \in DOMAIN ValueOf(@) |->
                                  [ValueOf(@)[j] EXCEPT !.id = "other_" \o @]])
                    ELSE @]]]

\* C14: a spec that differs from the assembled one only in the ids of its fields
\* gives, under the same readings of the clock, the same content for every
\* document of the file set.
C14_IdsNeverReachOutput ==
    Assembled =>
        LET other == buildGeneratedFiles(WithOtherIds(spec),
                                         FileSet[ManifestPath].generatedAt,
                                         FileSet[XlfPath].date)
        IN  /\ DOMAIN other = DOMAIN FileSet
            /\ \A p \in DOMAIN FileSet : other[p] = FileSet[p]

\* C15: the time-stamped documents of one assembled file set, the project
\* metadata and the translation catalog, carry the same timestamp.
C15_OneTimestampPerAssembly ==
    Assembled => FileSet[ManifestPath].generatedAt = FileSet[XlfPath].date

Blank(text) == \A i \in 1..Len(text) : CharAt(text, i) \in Whitespace
TemplateDoc == FileSet[TemplatePath]

\* C16 as stated: the rendering-template document of a spec with a non-blank
\* template is the template, character for character.
C16_Original ==
    (Assembled /\ ~Blank(spec.templateHtml)) => TemplateDoc.text = spec.templateHtml

\* C16: the rendering-template document of a spec with a non-blank template is the
\* template without the whitespace before its first and after its last character
\* that is not whitespace.
C16_TemplateEmittedTrimmed ==
    (Assembled /\ ~Blank(spec.templateHtml)) =>
        LET html == spec.templateHtml
            text == TemplateDoc.text
        IN  /\ text # ""
            /\ CharAt(text, 1) \notin Whitespace
            /\ CharAt(text, Len(text)) \notin Whitespace
            /\ \E i \in 1..Len(html) :
                   /\ text = SubSeq(html, i, i + Len(text) - 1)
                   /\ Blank(SubSeq(html, 1, i - 1))
                   /\ Blank(SubSeq(html, i + Len(text), Len(html)))

C16_Witness ==
    /\ Assembled
    /\ ~Blank(spec.templateHtml)
    /\ CharAt(spec.templateHtml, 1) \in Whitespace
    /\ TemplateDoc.text # spec.templateHtml
    /\ TemplateDoc.text = "<p>{data.title}</p>"

\* C17: the rendering-template document of a spec with an absent or blank template
\* is the synthesized one: the fixed envelope around one block per top-level field,
\* in field order; with at least one field it is not empty.
C17_BlankTemplateSynthesized ==
    (Assembled /\ Blank(spec.templateHtml)) =>
        /\ TemplateDoc.text = joinStr(generateTemplate(spec.fields), "\n")
        /\ Len(spec.fields) > 0 => TemplateDoc.text # ""

\* the column definition the kind-to-column mapping gives a field type
ColumnOfKind(type) ==
    CASE type \in {"input", "link", "select"} -> "varchar(255) DEFAULT '' NOT NULL"
      [] type \in {"textarea", "rte"} -> "text"
      [] type \in {"media", "repeater"} -> "int(11) unsigned DEFAULT '0' NOT NULL"
      [] type = "checkbox" -> "smallint(5) unsigned DEFAULT '0' NOT NULL"

ColumnLine(field) == "  " \o toTypo3Identifier(field.key) \o " " \o ColumnOfKind(field.type)

SqlDoc == FileSet[SqlPath]

NoNestedRepeater ==
    \A i \in DOMAIN spec.fields :
        \A j \in DOMAIN SubFieldsOf(spec.fields[i]) :
            SubFieldsOf(spec.fields[i])[j].type # "repeater"

C20_UnknownKindFailsValidation ==
    Validated =>
        ((\E i \in DOMAIN Fields :
             \/ ~includes(FIELD_TYPES, Fields[i].type)
             \/ \E j \in DOMAIN Subs(i) : ~includes(FIELD_TYPES, Subs(i)[j].type))
         => ~(FormErrors = <<>> /\ DOMAIN FieldErrors = {}))

\* C21: the assembled file set holds a schema-override document at a path ending in
\* /Configuration/TCA/Overrides/tt_content.php, a storage DDL at a path ending in
\* /ext_tables.sql, a rendering template at a path ending in
\* /Resources/Private/Templates/Content/<type key>.html and an icon at a path ending
\* in /Resources/Public/Icons/<icon name, each character outside [A-Za-z0-9_] made an
\* underscore>.svg.
C21_SmokeCheckPathsPresent ==
    Assembled =>
        LET endsWith(k, suffix) ==
                /\ Len(k) >= Len(suffix)
                /\ SubSeq(k, Len(k) - Len(suffix) + 1, Len(k)) = suffix
            has(suffix) == \E k \in DOMAIN FileSet : endsWith(k, suffix)
        IN  /\ has("/Configuration/TCA/Overrides/tt_content.php")
            /\ has("/ext_tables.sql")
            /\ has("/Resources/Private/Templates/Content/" \o spec.meta.cTypeKey \o ".html")
            /\ has("/Resources/Public/Icons/"
                   \o replaceOutside(spec.meta.iconName, IdentifierChars) \o ".svg")

\* C24: for a spec that passes validation, the column names of the base-table
\* statement of the storage DDL are pairwise distinct, and so are the keys of the
\* column map of the schema override.
C24_BaseColumnsPairwiseDistinct ==
    (Assembled /\ IsValid(spec)) =>
        LET columns == SqlDoc.ttContentColumns
            tca == FileSet[spec.meta.extensionKey \o "/Configuration/TCA/Overrides/tt_content_"
                           \o toTypo3Identifier(spec.meta.cTypeKey) \o ".php"].tcaColumns
        IN  /\ \A i, j \in DOMAIN columns :
                   i # j => ColumnName(columns[i]) # ColumnName(columns[j])
            /\ \A i, j \in DOMAIN tca : i # j => tca[i].key # tca[j].key

\* C25: for a spec that passes validation, the column names of each child-table
\* statement of the storage DDL are pairwise distinct: no child column has the name of
\* a fixed column of the child table or of another child column.
C25_ChildColumnsPairwiseDistinct ==
    (Assembled /\ IsValid(spec)) =>
        \A a \in DOMAIN SqlDoc.repeaterTablesSql :
            LET block == SqlDoc.repeaterTablesSql[a]
                names == block.fixedColumns
                         \o [j \in DOMAIN block.childColumns |->
                                ColumnName(block.childColumns[j])]
            IN  \A i, j \in DOMAIN names : i # j => names[i] # names[j]

\* C26: for a spec that passes validation, no two entries of the translation catalog
\* have the same id.
C26_CatalogIdsPairwiseDistinct ==
    (Assembled /\ IsValid(spec)) =>
        LET units == FileSet[XlfPath].units
        IN  \A i, j \in DOMAIN units : i # j => units[i].id # units[j].id

\* C27: the maximum length in the schema descriptor of a short-text field is at most
\* 255, the length of the storage column generated for the field.
C27_MaxLengthFitsColumn ==
    Assembled =>
        LET tca == FileSet[spec.meta.extensionKey \o "/Configuration/TCA/Overrides/tt_content_"
                           \o toTypo3Identifier(spec.meta.cTypeKey) \o ".php"].tcaColumns
        IN  \A i \in DOMAIN spec.fields :
                spec.fields[i].type = "input" =>
                    /\ ColumnLine(spec.fields[i])
                           = "  " \o toTypo3Identifier(spec.fields[i].key)
                             \o " varchar(255) DEFAULT '' NOT NULL"
                    /\ tca[i].config.max <= 255

(***************************************************************************)
(* Properties of the spec interchange                                      *)
(***************************************************************************)
\* C19: a spec file written by the page, read back and written again is the same
\* file: the page accepts it and no metadata value, field or template differs.
C19_ImportThenExportIsIdentity ==
    \A i \in 1..(Len(ui.io) - 1) :
        (ui.io[i].op = "import" /\ ui.io[i + 1].op = "download") =>
            ui.io[i].outcome = "ok" /\ ui.io[i + 1].content = ui.io[i].content

(***************************************************************************)
(* Properties of the builder page                                          *)
(***************************************************************************)
\* the places of the log that hold a validation run
Runs == {n \in DOMAIN ui.io : ui.io[n].op = "runValidation"}

\* the most recent validation run succeeded, and on a draft identical to the current
\* one
ValidatedAsIs ==
    /\ Runs # {}
    /\ LET last == CHOOSE n \in Runs : \A m \in Runs : m <= n
       IN  ui.io[last].outcome = "ok" /\ ui.io[last].content = currentFingerprint

\* C22 as stated: export is unlocked only if the most recent validation run succeeded
\* on a draft identical to the current one, and after every handler that changes the
\* draft export is locked.
C22_Original ==
    /\ [](isExportUnlocked => ValidatedAsIs)
    /\ [][spec' # spec => ~isExportUnlocked']_vars

\* C22: export is unlocked only if the most recent validation run succeeded, with no
\* spec-level and no field-level error, on a draft identical to the current one; so
\* export is locked whenever the draft differs from the draft of that run.  (A change
\* that restores that very draft can unlock export again without a new run.)
C22_UnlockedOnlyForValidatedDraft ==
    isExportUnlocked =>
        /\ ValidatedAsIs
        /\ runValidationResult(spec).formErrors = <<>>
        /\ DOMAIN runValidationResult(spec).fieldErrors = {}

C22_Witness ==
    /\ isExportUnlocked
    /\ Len(ui.io) = 2
    /\ ui.io[1].op = "runValidation" /\ ui.io[1].outcome = "ok"
    /\ ui.io[2].op = "runValidation" /\ ui.io[2].outcome = "ok"
    /\ ui.io[1].content # ui.io[2].content

\* C23: an archive of the single element is exported after an assist response was
\* applied only if, between the two, a validation run succeeded on the draft that is
\* exported.
C23_AssistValidatedBeforeExport ==
    \A k \in DOMAIN ui.io :
        ui.io[k].op = "doExportZip" =>
            \A j \in 1..(k - 1) :
                ui.io[j].op = "generateWithAi" =>
                    \E m \in (j + 1)..(k - 1) :
                        /\ ui.io[m].op = "runValidation" /\ ui.io[m].outcome = "ok"
                        /\ ui.io[m].content = ui.io[k].content

C23_Witness ==
    /\ Len(ui.io) = 3
    /\ ui.io[1].op = "generateWithAi"
    /\ ui.io[2].op = "runValidation" /\ ui.io[2].outcome = "ok"
    /\ ui.io[3].op = "doExportZip" /\ ui.io[3].content = ui.io[1].content
    /\ IsDefined(zip)

\* C29: when an assist response is applied, the vendor name, the extension key and
\* the wizard group, which no response supplies, keep the values they have when the
\* response arrives.
C29_AssistKeepsUnsuppliedMeta ==
    [][(/\ Len(ui'.io) = Len(ui.io) + 1
        /\ ui'.io[Len(ui'.io)].op = "generateWithAi")
       => /\ spec'.meta.vendorName = spec.meta.vendorName
          /\ spec'.meta.extensionKey = spec.meta.extensionKey
          /\ spec'.meta.group = spec.meta.group]_vars

\* C30: the bundle list never holds two entries that createZipFromSpecs merges into
\* one element, and the element count that the status line reports after a bundle
\* export is the number of elements in the exported archive.
C30_ListedElementsAreExportedElements ==
    /\ \A i, j \in DOMAIN bundle :
           i # j => toTypo3Identifier(bundle[i].meta.cTypeKey)
                        # toTypo3Identifier(bundle[j].meta.cTypeKey)
    /\ \A n \in 0..MaxBundle :
           (/\ IsDefined(zip) /\ IsDefined(Blob)
            /\ ui.status = Some([type |-> "ok", text |-> BundleExportedMsg(n)])) =>
               Cardinality({p \in DOMAIN ValueOf(Blob) :
                               ValueOf(Blob)[p].doc = "tt_content override"}) = n

====
